---------------------------- MODULE Spec2Model ----------------------------
(***************************************************************************)
(* A model of tmdb-rename.py (class MediaRenamer): the transactional       *)
(* rename engine (execute_renames, _do_rename, _rename, _rollback), the    *)
(* outcome status machine (scan_folder, interactive_review) and the        *)
(* catalog request (_tmdb_request).                                        *)
(*                                                                         *)
(* File and folder names are sequences of one-character strings, so that   *)
(* _sanitize and the name formats are computed as the code computes them.  *)
(* The filesystem is one parent directory whose entries are files or       *)
(* directories; a directory holds a set of direct children.  There are no  *)
(* symbolic links, so Path.resolve() of two paths is equal exactly when    *)
(* the paths are equal.                                                    *)
(***************************************************************************)
EXTENDS Integers, Sequences, FiniteSets, TLC

(***************************************************************************)
(* Bounds of the model.                                                    *)
(***************************************************************************)
\* most direct children a scanned folder starts with
MaxKids == 2
\* depth at which the interpreter refuses to recurse further (Python's
\* recursion limit, scaled down)
RecursionLimit == 4
\* most interactive review commands followed in one run
MaxCmds == 2
\* the longest list of outcomes a collection may grow the results to
MaxResults == 4

(***************************************************************************)
(* Program constants.                                                      *)
(***************************************************************************)
\* _sanitize: len(name) > 200 is rejected
MaxNameLen == 200
\* execute_renames / scan_folder: r'^tt\d{7,}$'
MinImdbDigits == 7

\* None / the empty string of an optional text field (both are falsy in the code)
NoText == <<>>

Digits == {"0", "1", "2", "3", "4", "5", "6", "7", "8", "9"}

\* MatchStatus
AUTO == "AUTO"
UNSURE == "UNSURE"
MANUAL == "MANUAL"
NONE == "NONE"
SKIP == "SKIP"
DONE == "DONE"
RENAMED == "RENAMED"
MatchStatus == {AUTO, UNSURE, MANUAL, NONE, SKIP, DONE, RENAMED}

\* RENAME_EXT, SUB_EXT (the extensions the model's files use)
RENAME_EXT == {"mkv", "nfo"}
SUB_EXT == {"srt"}

\* str.lower() on the extensions of the model
Lower(ext) == IF ext = "MKV" THEN "mkv" ELSE ext

(***************************************************************************)
(* _sanitize                                                               *)
(***************************************************************************)
IllegalChars == {"<", ">", ":", "\"", "/", "\\", "|", "?", "*"}
ControlChars == {"\t", "\n"}
StripChars == {".", " "}
\* the character \x7f (DEL), written as one element of a name: a control character
\* outside the range \x00-\x1f
Del == "DEL"

\* name.replace(c, '') for each c of bad; re.sub(r'[\x00-\x1f]', '', name)
RemoveChars(s, bad) == SelectSeq(s, LAMBDA c : c \notin bad)

\* re.sub(r'\s+', ' ', name): of a run of spaces the first is kept
CollapseSpaces(s) ==
    LET keep == SelectSeq([i \in 1..Len(s) |-> i],
                          LAMBDA i : ~(i > 1 /\ s[i] = " " /\ s[i - 1] = " "))
    IN  [j \in 1..Len(keep) |-> s[keep[j]]]

\* name.strip('. ')
StripNone(s) == s
Strip(s) ==
    LET inner == SelectSeq([i \in 1..Len(s) |-> i], LAMBDA i : s[i] \notin StripChars)
    IN  IF inner = <<>> THEN <<>> ELSE SubSeq(s, inner[1], inner[Len(inner)])

\* the name _sanitize computes before its two final checks
SanitizeText(name) ==
    Strip(CollapseSpaces(RemoveChars(RemoveChars(name, IllegalChars), ControlChars)))

\* _sanitize raises RenameError
SanitizeRaises(name) ==
    \/ name = <<>>
    \/ SanitizeText(name) = <<>>
    \/ Len(SanitizeText(name)) > MaxNameLen

(***************************************************************************)
(* MediaMatch and the canonical name                                       *)
(***************************************************************************)
Rep(c, n) == [i \in 1..n |-> c]

ImdbValid == <<"t", "t", "0", "0", "0", "0", "0", "0", "1">>
ImdbOther == <<"t", "t", "0", "0", "0", "0", "0", "0", "2">>
\* an identifier the catalog may return that is not of the form tt + digits
ImdbMalformed == <<"n", "m", "1">>

\* re.match(r'^tt\d{7,}$', imdb_id)
IsImdbId(s) ==
    /\ Len(s) >= 2 + MinImdbDigits
    /\ s[1] = "t"
    /\ s[2] = "t"
    /\ \A i \in 3..Len(s) : s[i] \in Digits

Year1999 == <<"1", "9", "9", "9">>
Year2001 == <<"2", "0", "0", "1">>

\* the selected matches the model's outcomes carry
MatchA == [tmdb_id |-> 1, imdb_id |-> ImdbValid, title |-> <<"a">>,
           original_title |-> <<"a">>, year |-> Year1999, popularity |-> 2]
\* no external identifier yet, no year, a title only in original_title, with
\* characters _sanitize removes and one it keeps
MatchB == [tmdb_id |-> 2, imdb_id |-> NoText, title |-> <<>>,
           original_title |-> <<".", " ", "b", ":", "\t", " ", " ", Del, "?">>,
           year |-> <<>>, popularity |-> 1]
\* a title too long for a name
MatchLong == [tmdb_id |-> 3, imdb_id |-> ImdbValid, title |-> Rep("x", MaxNameLen),
              original_title |-> <<>>, year |-> Year1999, popularity |-> 0]
\* a title of which _sanitize leaves nothing
MatchMark == [tmdb_id |-> 4, imdb_id |-> ImdbValid, title |-> <<"?">>,
              original_title |-> <<"?">>, year |-> Year2001, popularity |-> 0]
Matches == {MatchA, MatchB, MatchLong, MatchMark}

\* f"{title} ({year}) [imdbid-{match.imdb_id}]"
FormatName(title, year, imdb) ==
    title \o <<" ", "(">> \o year \o <<")", " ", "[", "i", "m", "d", "b", "i", "d", "-">>
          \o imdb \o <<"]">>

\* execute_renames: title = match.title or match.original_title; year = match.year or '0000'
RawName(m) ==
    FormatName(IF m.title # <<>> THEN m.title ELSE m.original_title,
               IF m.year # <<>> THEN m.year ELSE <<"0", "0", "0", "0">>,
               m.imdb_id)

\* int(time.time() * 1000) read as one of two instants; str(tmdb_id)
IdChar(id) == CASE id = 1 -> "1" [] id = 2 -> "2" [] id = 3 -> "3" [] OTHER -> "4"
ClockChar(t) == IF t = 0 THEN "0" ELSE "1"
\* f".tmp_{int(time.time() * 1000)}_{match.tmdb_id}"
TmpName(t, id) == <<".", "t", "m", "p", "_", ClockChar(t), "_", IdChar(id)>>

(***************************************************************************)
(* The filesystem                                                          *)
(***************************************************************************)
NmA == <<"A">>
NmB == <<"B">>
\* a lone video file at the scan root
NmF == <<"f", ".", "m", "k", "v">>

\* the instants time.time() * 1000 takes: a transaction reads the clock once, and
\* the clock has moved on when the next one reads it, as long as the model can tell
Clock == {0, 1}
Later(t) == IF t = 0 THEN 1 ELSE t

\* what the catalog may answer to /{media_type}/{id}/external_ids
FetchAnswers == {NoText, ImdbOther, ImdbMalformed}

\* the canonical names the model's matches lead to
TargetA == SanitizeText(RawName(MatchA))
TargetB == SanitizeText(RawName([MatchB EXCEPT !.imdb_id = ImdbOther]))

TargetMark == SanitizeText(RawName(MatchMark))

TopNames ==
    {NmA, NmB, NmF, TargetA, TargetB, TargetMark}
        \cup {TmpName(t, m.tmdb_id) : t \in Clock, m \in Matches}

\* the device of the parent directory
ParentDev == 0
Devs == {0, 1}

\* a direct child of a folder: stem + tag + extension; dir: a subdirectory
Kid(stem, tag, ext) == [stem |-> stem, tag |-> tag, ext |-> ext, dir |-> FALSE]
KidSubs == [stem |-> <<"S", "u", "b", "s">>, tag |-> "", ext |-> "", dir |-> TRUE]
InitKidNames ==
    {Kid(<<"a">>, "", "mkv"), Kid(<<"b">>, "", "MKV"), Kid(TargetA, "", "mkv"),
     Kid(<<"a">>, "eng", "srt"), Kid(<<"n">>, "", "txt"), KidSubs}

Absent == [kind |-> "absent", dev |-> ParentDev, kids |-> {}]
Dir(dev, kids) == [kind |-> "dir", dev |-> dev, kids |-> kids]
File(dev) == [kind |-> "file", dev |-> dev, kids |-> {}]

\* Path.exists(): a path is <<name>> or <<folder name, child>>
Exists(f, p) ==
    IF Len(p) = 1 THEN f[p[1]].kind # "absent"
    ELSE f[p[1]].kind = "dir" /\ p[2] \in f[p[1]].kids

\* Path.is_dir() / Path.is_file()
IsDir(f, p) ==
    IF Len(p) = 1 THEN f[p[1]].kind = "dir" ELSE Exists(f, p) /\ p[2].dir
IsFile(f, p) ==
    IF Len(p) = 1 THEN f[p[1]].kind = "file" ELSE Exists(f, p) /\ ~p[2].dir

\* (p if p.exists() else p.parent).stat() does not raise OSError
StatOk(f, p) == Exists(f, p) \/ Len(p) = 1 \/ f[p[1]].kind = "dir"

\* (p if p.exists() else p.parent).stat().st_dev
StatDev(f, p) ==
    IF Len(p) = 1 /\ ~Exists(f, p) THEN ParentDev ELSE f[p[1]].dev

\* _same_fs
SameFs(f, a, b) ==
    /\ StatOk(f, a)
    /\ StatOk(f, b)
    /\ StatDev(f, a) = StatDev(f, b)

\* os.rename(src, dst) raises OSError for a reason the filesystem state decides:
\* ENOENT, ENOTDIR, EINVAL (a directory into itself), EXDEV, EISDIR, ENOTEMPTY
OsRenameErr(f, src, dst) ==
    \/ ~Exists(f, src)
    \/ Len(dst) = 2 /\ f[dst[1]].kind # "dir"
    \/ Len(src) = 1 /\ Len(dst) = 2 /\ src[1] = dst[1]
    \/ StatDev(f, src) # StatDev(f, dst)
    \/ /\ Exists(f, dst)
       /\ \/ IsDir(f, src) # IsDir(f, dst)
          \/ Len(dst) = 1 /\ IsDir(f, dst) /\ f[dst[1]].kids # {}

\* the filesystem after a successful os.rename(src, dst); an existing
\* destination is replaced.  Between the parent directory and a folder only
\* files are moved
OsRenameApply(f, src, dst) ==
    CASE Len(src) = 1 /\ Len(dst) = 1 ->
            [f EXCEPT ![dst[1]] = f[src[1]], ![src[1]] = Absent]
      [] Len(src) = 2 /\ Len(dst) = 2 /\ src[1] = dst[1] ->
            [f EXCEPT ![src[1]].kids = (@ \ {src[2]}) \cup {dst[2]}]
      [] Len(src) = 1 /\ Len(dst) = 2 ->
            [f EXCEPT ![src[1]] = Absent, ![dst[1]].kids = @ \cup {dst[2]}]
      [] Len(src) = 2 /\ Len(dst) = 1 ->
            [f EXCEPT ![src[1]].kids = @ \ {src[2]},
                      ![dst[1]] = File(f[src[1]].dev)]
      [] OTHER -> f

\* _rename without its destination check
RenameRejectsNoDst(f, src, dst) == ~Exists(f, src) \/ ~SameFs(f, src, dst)

\* _rename: the three preconditions that raise RenameError before os.rename
RenameRejects(f, src, dst) ==
    \/ ~Exists(f, src)
    \/ Exists(f, dst) /\ src # dst
    \/ ~SameFs(f, src, dst)

\* RenameOp
RenameOpDone(old, new, done) == [old |-> old, new |-> new, done |-> TRUE]
RenameOp(old, new, done) == [old |-> old, new |-> new, done |-> done]

\* _rollback going through every logged step
DoneOpsAll(log) == log

\* _rollback: done = [o for o in self._ops if o.done]
DoneOps(log) == SelectSeq(log, LAMBDA o : o.done)

Reverse(s) == [i \in 1..Len(s) |-> s[Len(s) + 1 - i]]

\* _rollback replaying the log in the order it was written
RollbackOrderForward(log) == DoneOps(log)

\* _rollback stopping short of the step that was logged first
RollbackOrderButFirst(log) ==
    LET all == Reverse(DoneOps(log))
    IN  IF all = <<>> THEN <<>> ELSE SubSeq(all, 1, Len(all) - 1)

\* _rollback: for op in reversed(done)
RollbackOrder(log) == Reverse(DoneOps(log))

\* Path.suffix of a top-level name: from the last dot on, '' without one
RECURSIVE LastDot(_, _)
LastDot(name, i) ==
    IF i <= 1 THEN 0 ELSE IF name[i] = "." THEN i ELSE LastDot(name, i - 1)
PathSuffix(name) ==
    IF LastDot(name, Len(name)) = 0 THEN ""
    ELSE IF SubSeq(name, LastDot(name, Len(name)) + 1, Len(name)) = <<"m", "k", "v">>
    THEN "mkv" ELSE "other"

\* LANG_MAP / _sub_lang: the suffix for a subtitle file ('' when no token)
SubLang(item) ==
    CASE item.tag = "eng" -> "en"
      [] item.tag = "forced" -> "forced"
      [] OTHER -> ""

\* execute_renames, step 3: new_fn, the new name of a direct child, as <<name>>;
\* <<>> (None) when its extension is neither renamable nor a subtitle
NewFn(new_name, item) ==
    IF Lower(item.ext) \in RENAME_EXT THEN <<Kid(new_name, "", Lower(item.ext))>>
    ELSE IF Lower(item.ext) \in SUB_EXT
    THEN <<Kid(new_name, SubLang(item), Lower(item.ext))>>
    ELSE <<>>
(***************************************************************************)
(* State                                                                   *)
(***************************************************************************)
VARIABLES
    results,      \* the list of ScanResult: path, status, selected_match (sel), new_name
    fs,           \* the parent directory: name -> entry
    ops,          \* self._ops, the step log
    pc,           \* where the run is
    interactive,  \* execute_renames is called by interactive_review ('x')
    dry_run,
    to_rename,    \* execute_renames: the indices of the outcomes picked at call time
    k,            \* execute_renames: position in to_rename
    ok, skip, err,
    working,      \* execute_renames: the folder whose children are renamed
    todo,         \* execute_renames: what is left of list(working.iterdir())
    temp,         \* execute_renames: the temporary sibling's name
    now,          \* time.time()
    rb,           \* _rollback: what is left of reversed(done)
    fs0,          \* history: the filesystem when the current transaction began
    results0,     \* history: status and selection of the outcomes at the call
    rbFail,       \* history: a restore of the current rollback raised OSError
    visited,      \* history: the steps _rollback has gone through, in order
    processed,    \* history: the outcomes the loop of execute_renames has gone through
    committed,    \* history: the outcomes whose transaction was committed
    cache,        \* self._cache: url -> data
    reqUrl,       \* _tmdb_request: the url of the call under way
    depth,        \* _tmdb_request: the number of nested frames of the call
    attempts,     \* history: the network attempts of the call under way
    reqPc,        \* _tmdb_request: idle, about to try, or returning
    reqOut,       \* _tmdb_request: the value returned
    reqArgs,      \* _tmdb_request: endpoint and params of the call under way
    fetches,      \* history: the data fetched for each request, in order
    known,        \* history: the request under way had been fetched when it was made
    items,        \* collection_items of each scanned folder
    queue,        \* interactive_review: what is left of `for idx in indices`
    cmds,         \* the number of review commands given so far
    cmd,          \* the review command under way
    scanned,      \* history: what scan_folder found for each folder, in scan order
    calls,        \* history: what scan_folder called for each folder, in call order
    sPc,          \* _search_tmdb: where the call is
    sTitle,       \* _search_tmdb: the title it was given
    sYear,        \* _search_tmdb: the year it was given
    sVariants,    \* _search_tmdb: what is left of search_variants
    sItems,       \* _search_tmdb: what is left of data['results']
    sResults,     \* _search_tmdb: results, as accumulated
    sSeen,        \* _search_tmdb: seen_ids
    sLog,         \* history: the catalog requests of the call, with their answers
    sOut,         \* _search_tmdb: the list returned
    mPc,          \* _manual_lookup: where the call is
    mInput,       \* _manual_lookup: the text typed
    mLog,         \* history: the catalog requests of the call, with their answers
    mOut,         \* _manual_lookup: how the call ended
    mRes,         \* interactive_review: the outcome of the dialog, before and after
    alien,        \* history: the entry another process has put at a target path
    dPc,          \* scan_folder: where the detection of one folder is
    dFolder,      \* scan_folder: what the folder's name matches
    dFound,       \* _find_videos: the videos, in the order the walk met them
    dVideos,      \* _detect_type: the videos, as _find_videos returns them
    dType,        \* scan_folder: detected_type
    dItems        \* scan_folder: collection_items

txnVars == <<results, fs, ops, pc, interactive, dry_run, to_rename, k, ok, skip, err,
             working, todo, temp, now, rb>>
histVars == <<fs0, results0, rbFail, visited, processed, committed>>
reqVars == <<cache, reqUrl, depth, attempts, reqPc, reqOut, reqArgs, fetches, known>>
revVars == <<items, queue, cmds, cmd, scanned, calls>>
srchVars == <<sPc, sTitle, sYear, sVariants, sItems, sResults, sSeen, sLog, sOut>>
lookVars == <<mPc, mInput, mLog, mOut, mRes>>
detVars == <<dPc, dFolder, dFound, dVideos, dType, dItems>>
envVars == <<alien, detVars>>
catVars == <<srchVars, lookVars, envVars>>
vars == <<txnVars, histVars, reqVars, revVars, catVars>>

\* ScanResult
Outcome(path, status, sel) ==
    [path |-> path, status |-> status, sel |-> sel, new_name |-> NoText,
     coll |-> FALSE, matches |-> <<>>]

\* what the outcomes looked like: status, and whether a match is selected
Snapshot(res) ==
    [i \in 1..Len(res) |-> [status |-> res[i].status, selected |-> res[i].sel # <<>>]]

\* every outcome with a selected match, whatever its status
EligibleAnyStatus(res) ==
    SelectSeq([i \in 1..Len(res) |-> i], LAMBDA i : res[i].sel # <<>>)

\* execute_renames: to_rename, as indices into results
Eligible(res) ==
    SelectSeq([i \in 1..Len(res) |-> i],
              LAMBDA i : /\ res[i].status \in {AUTO, MANUAL}
                         /\ res[i].sel # <<>>
                         /\ res[i].status # RENAMED)

(***************************************************************************)
(* execute_renames                                                         *)
(***************************************************************************)
\* the call: to_rename is computed; with nothing to rename it returns at once
ExecCall ==
    /\ results0' = Snapshot(results)
    /\ to_rename' = Eligible(results)
    /\ k' = 1
    /\ processed' = <<>>
    /\ ok' = 0
    /\ err' = 0
    /\ IF Eligible(results) = <<>>
       THEN skip' = Len(results) /\ pc' = "returned"
       ELSE skip' = 0 /\ pc' = "loop"
    /\ UNCHANGED <<results, fs, ops, interactive, dry_run, working, todo, temp, now, rb,
                   fs0, rbFail, visited, committed>>

\* the non-interactive call from main()
ExecStart ==
    /\ pc = "idle"
    /\ UNCHANGED <<reqVars, revVars, catVars>>
    /\ ExecCall

\* an iteration whose failure ends the loop
IterEndAbort(res, dOk, dSkip, dErr) ==
    /\ results' = res
    /\ ok' = ok + dOk
    /\ skip' = skip + dSkip
    /\ err' = err + dErr
    /\ k' = IF dErr > 0 THEN Len(to_rename) + 1 ELSE k + 1
    /\ ops' = <<>>
    /\ processed' = Append(processed, to_rename[k])
    /\ pc' = "loop"

\* an iteration that leaves the step log as it is
IterEndKeepsLog(res, dOk, dSkip, dErr) ==
    /\ results' = res
    /\ ok' = ok + dOk
    /\ skip' = skip + dSkip
    /\ err' = err + dErr
    /\ k' = k + 1
    /\ ops' = ops
    /\ processed' = Append(processed, to_rename[k])
    /\ pc' = "loop"

\* the end of one iteration of `for result in to_rename`
IterEnd(res, dOk, dSkip, dErr) ==
    /\ results' = res
    /\ ok' = ok + dOk
    /\ skip' = skip + dSkip
    /\ err' = err + dErr
    /\ k' = k + 1
    /\ ops' = <<>>
    /\ processed' = Append(processed, to_rename[k])
    /\ pc' = "loop"

\* the head of an iteration, up to the first filesystem mutation
ExecBegin ==
    /\ pc = "loop"
    /\ UNCHANGED <<reqVars, revVars, catVars>>
    /\ k <= Len(to_rename)
    /\ \E ans \in FetchAnswers :
        LET i == to_rename[k]
            r == results[i]
            m0 == r.sel[1]
            m == IF m0.imdb_id = NoText THEN [m0 EXCEPT !.imdb_id = ans] ELSE m0
            name == SanitizeText(RawName(m))
            r1 == [results EXCEPT ![i].sel = <<m>>]
            r2 == [r1 EXCEPT ![i].new_name = name]
            path == <<r.path>>
            new_dir == <<name>>
            snapshot == fs[r.path].kids
        IN  /\ fs0' = fs
            /\ rbFail' = FALSE
            /\ visited' = <<>>
            /\ UNCHANGED <<fs, interactive, dry_run, to_rename, rb, results0, committed>>
            /\ IF r.sel = <<>>
               THEN IterEnd(results, 0, 1, 0) /\ UNCHANGED <<working, todo, temp, now>>
               ELSE IF m.imdb_id = NoText \/ ~IsImdbId(m.imdb_id)
               THEN IterEnd(r1, 0, 0, 1) /\ UNCHANGED <<working, todo, temp, now>>
               ELSE IF SanitizeRaises(RawName(m))
               THEN IterEnd(r1, 0, 0, 1) /\ UNCHANGED <<working, todo, temp, now>>
               ELSE IF dry_run
               THEN IterEnd(r2, 1, 0, 0) /\ UNCHANGED <<working, todo, temp, now>>
               ELSE IF IsDir(fs, path)
               THEN IF ~SameFs(fs, path, new_dir)
                    THEN IterEnd(r2, 0, 0, 1) /\ UNCHANGED <<working, todo, temp, now>>
                    ELSE IF r.path # name
                    THEN IF Exists(fs, new_dir)
                         THEN IterEnd(r2, 0, 0, 1)
                              /\ UNCHANGED <<working, todo, temp, now>>
                         ELSE /\ results' = r2
                              /\ ops' = <<>>
                              /\ now' = Later(now)
                              /\ temp' = TmpName(now, m.tmdb_id)
                              /\ pc' = "hop1"
                              /\ UNCHANGED <<ok, skip, err, k, processed, working, todo>>
                    ELSE /\ results' = r2
                         /\ ops' = <<>>
                         /\ working' = r.path
                         /\ todo' = snapshot
                         /\ pc' = IF snapshot = {} THEN "commit" ELSE "files"
                         /\ UNCHANGED <<ok, skip, err, k, processed, temp, now>>
               ELSE IF Exists(fs, new_dir)
                    THEN IterEnd(r2, 0, 0, 1) /\ UNCHANGED <<working, todo, temp, now>>
                    ELSE /\ results' = r2
                         /\ ops' = <<>>
                         /\ pc' = "mkdir"
                         /\ UNCHANGED <<ok, skip, err, k, processed, working, todo,
                                        temp, now>>

\* a failed step after which the transaction goes on
DoRenameGoesOn(old, new, fail, nextPc) ==
    IF RenameRejects(fs, old, new) \/ OsRenameErr(fs, old, new) \/ fail
    THEN /\ ops' = Append(ops, RenameOp(old, new, FALSE))
         /\ fs' = fs
         /\ rb' = rb
         /\ pc' = nextPc
    ELSE /\ ops' = Append(ops, RenameOp(old, new, TRUE))
         /\ fs' = OsRenameApply(fs, old, new)
         /\ rb' = rb
         /\ pc' = nextPc

\* _do_rename(old, new): the step is logged, _rename checks and renames, the step
\* is marked done; a RenameError leads to _rollback.  fail: os.rename raises
\* OSError for a reason outside the model (EACCES, EPERM)
DoRename(old, new, fail, nextPc) ==
    IF RenameRejects(fs, old, new) \/ OsRenameErr(fs, old, new) \/ fail
    THEN /\ ops' = Append(ops, RenameOp(old, new, FALSE))
         /\ fs' = fs
         /\ rb' = RollbackOrder(Append(ops, RenameOp(old, new, FALSE)))
         /\ pc' = "rollback"
    ELSE /\ ops' = Append(ops, RenameOp(old, new, TRUE))
         /\ fs' = OsRenameApply(fs, old, new)
         /\ rb' = rb
         /\ pc' = nextPc

Cur == results[to_rename[k]]

\* the folder renamed to its new name at once
Hop1Direct ==
    /\ pc = "hop1"
    /\ UNCHANGED <<reqVars, revVars, catVars>>
    /\ \E fail \in BOOLEAN : DoRename(<<Cur.path>>, <<Cur.new_name>>, fail, "hop2")
    /\ UNCHANGED <<results, interactive, dry_run, to_rename, k, ok, skip, err, working,
                   todo, temp, now, histVars>>

\* self._do_rename(result.path, temp)
Hop1 ==
    /\ pc = "hop1"
    /\ UNCHANGED <<reqVars, revVars, catVars>>
    /\ \E fail \in BOOLEAN : DoRename(<<Cur.path>>, <<temp>>, fail, "hop2")
    /\ UNCHANGED <<results, interactive, dry_run, to_rename, k, ok, skip, err, working,
                   todo, temp, now, histVars>>

\* self._do_rename(temp, new_dir); working = new_dir; list(working.iterdir())
Hop2 ==
    /\ pc = "hop2"
    /\ UNCHANGED <<reqVars, revVars, catVars>>
    /\ \E fail \in BOOLEAN :
        /\ DoRename(<<temp>>, <<Cur.new_name>>, fail,
                    IF fs[temp].kids = {} THEN "commit" ELSE "files")
        /\ IF pc' = "rollback"
           THEN UNCHANGED <<working, todo>>
           ELSE working' = Cur.new_name /\ todo' = fs[temp].kids
    /\ UNCHANGED <<results, interactive, dry_run, to_rename, k, ok, skip, err,
                   temp, now, histVars>>

\* `if new_fn and item.name != new_fn:` ... `if not target.exists():`
ShouldRenameAlways(f, dir, item, nf) == nf # <<>> /\ item # nf[1]
ShouldRename(f, dir, item, nf) ==
    /\ nf # <<>>
    /\ item # nf[1]
    /\ ~Exists(f, <<dir, nf[1]>>)

\* one iteration of `for item in list(working.iterdir())`, in any order
FileStep ==
    /\ pc = "files"
    /\ UNCHANGED <<reqVars, revVars, catVars>>
    /\ todo # {}
    /\ \E item \in todo, fail \in BOOLEAN :
        LET nf == NewFn(Cur.new_name, item)
            target == <<working, nf[1]>>
            after == IF todo \ {item} = {} THEN "commit" ELSE "files"
        IN  /\ todo' = todo \ {item}
            /\ IF IsFile(fs, <<working, item>>) /\ ShouldRename(fs, working, item, nf)
               THEN DoRename(<<working, item>>, target, fail, after)
               ELSE pc' = after /\ UNCHANGED <<fs, ops, rb>>
    /\ UNCHANGED <<results, interactive, dry_run, to_rename, k, ok, skip, err, working,
                   temp, now, histVars>>

\* new_dir.mkdir(); an OSError is caught by `except Exception`, and _rollback
\* finds no step
Mkdir ==
    /\ pc = "mkdir"
    /\ UNCHANGED <<reqVars, revVars, catVars>>
    /\ \E fail \in BOOLEAN :
        IF fail \/ Exists(fs, <<Cur.new_name>>)
        THEN /\ IterEnd(results, 0, 0, 1)
             /\ UNCHANGED fs
        ELSE /\ fs' = [fs EXCEPT ![Cur.new_name] = Dir(ParentDev, {})]
             /\ pc' = "move"
             /\ UNCHANGED <<results, ops, k, ok, skip, err, processed>>
    /\ UNCHANGED <<interactive, dry_run, to_rename, working, todo, temp, now, rb,
                   fs0, results0, rbFail, visited, committed>>

\* new_file = new_dir / f"{new_name}{result.path.suffix}"
NewFileNoSuffix(new_name, path) == <<new_name, Kid(new_name, "", "")>>
NewFile(new_name, path) == <<new_name, Kid(new_name, "", PathSuffix(path))>>

\* self._do_rename(result.path, new_file)
Move ==
    /\ pc = "move"
    /\ UNCHANGED <<reqVars, revVars, catVars>>
    /\ \E fail \in BOOLEAN :
        DoRename(<<Cur.path>>, NewFile(Cur.new_name, Cur.path), fail, "commit")
    /\ UNCHANGED <<results, interactive, dry_run, to_rename, k, ok, skip, err, working,
                   todo, temp, now, histVars>>

\* self._commit(); result.status = MatchStatus.RENAMED; ok += 1
Commit ==
    /\ pc = "commit"
    /\ UNCHANGED <<reqVars, revVars, catVars>>
    /\ IterEnd([results EXCEPT ![to_rename[k]].status = RENAMED], 1, 0, 0)
    /\ committed' = committed \cup {to_rename[k]}
    /\ UNCHANGED <<fs, interactive, dry_run, to_rename, working, todo, temp, now, rb,
                   fs0, results0, rbFail, visited>>

\* _rollback: one iteration of `for op in reversed(done)`
RollbackStep ==
    /\ pc = "rollback"
    /\ UNCHANGED <<reqVars, revVars, catVars>>
    /\ rb # <<>>
    /\ LET op == Head(rb)
       IN  /\ rb' = Tail(rb)
           /\ IF Exists(fs, op.new)
              THEN \E fail \in BOOLEAN :
                    IF fail \/ OsRenameErr(fs, op.new, op.old)
                    THEN /\ fs' = fs
                         /\ rbFail' = TRUE
                         /\ visited' = Append(visited, [op |-> op, how |-> "failed"])
                    ELSE /\ fs' = OsRenameApply(fs, op.new, op.old)
                         /\ rbFail' = rbFail
                         /\ visited' = Append(visited, [op |-> op, how |-> "restored"])
              ELSE /\ fs' = fs
                   /\ rbFail' = rbFail
                   /\ visited' = Append(visited, [op |-> op, how |-> "skipped"])
    /\ UNCHANGED <<results, ops, pc, interactive, dry_run, to_rename, k, ok, skip, err,
                   working, todo, temp, now, fs0, results0, processed, committed>>

\* _rollback: self._ops.clear(); then err += 1
RollbackEnd ==
    /\ pc = "rollback"
    /\ UNCHANGED <<reqVars, revVars, catVars>>
    /\ rb = <<>>
    /\ IterEnd(results, 0, 0, 1)
    /\ UNCHANGED <<fs, interactive, dry_run, to_rename, working, todo, temp, now, rb,
                   fs0, results0, rbFail, visited, committed>>

\* return ok, skip, err
ExecReturn ==
    /\ pc = "loop"
    /\ UNCHANGED <<reqVars, revVars, catVars>>
    /\ k > Len(to_rename)
    /\ pc' = "returned"
    /\ UNCHANGED <<results, fs, ops, interactive, dry_run, to_rename, k, ok, skip, err,
                   working, todo, temp, now, rb, histVars>>

\* the marking without its `not dry_run`
MarkRenamedInDryRun(res, dry) ==
    [i \in 1..Len(res) |->
        IF res[i].status = AUTO /\ res[i].sel # <<>>
        THEN [res[i] EXCEPT !.status = RENAMED] ELSE res[i]]

\* interactive_review, after the 'x' command's call has returned:
\* for r in results: if r.status == AUTO and r.selected_match and not dry_run: RENAMED
MarkRenamed(res, dry) ==
    [i \in 1..Len(res) |->
        IF res[i].status = AUTO /\ res[i].sel # <<>> /\ ~dry
        THEN [res[i] EXCEPT !.status = RENAMED] ELSE res[i]]

ReviewXPost ==
    /\ pc = "returned"
    /\ UNCHANGED <<reqVars, revVars, catVars>>
    /\ interactive
    /\ results' = MarkRenamed(results, dry_run)
    /\ pc' = "menu"
    /\ UNCHANGED <<fs, ops, interactive, dry_run, to_rename, k, ok, skip, err,
                   working, todo, temp, now, rb, histVars>>

(***************************************************************************)
(* The second hop with another process at work in the parent directory     *)
(***************************************************************************)
\* no other process has done anything
EnvInit == alien = <<>>

\* what the other process creates: a file, an empty folder, a folder with a file
AlienEntries ==
    {File(ParentDev), Dir(ParentDev, {}), Dir(ParentDev, {Kid(<<"z">>, "", "mkv")})}

\* the other process creates an entry at the target path, once new_dir.exists()
\* has been found false and before the second hop's os.rename
Intrude ==
    /\ pc \in {"hop1", "hop2", "hop2os"}
    /\ alien = <<>>
    /\ ~Exists(fs, <<Cur.new_name>>)
    /\ \E e \in AlienEntries :
        /\ fs' = [fs EXCEPT ![Cur.new_name] = e]
        /\ alien' = <<[name |-> Cur.new_name, entry |-> e, idx |-> to_rename[k],
                       at |-> pc]>>
    /\ UNCHANGED <<results, ops, pc, interactive, dry_run, to_rename, k, ok, skip, err,
                   working, todo, temp, now, rb, histVars, reqVars, revVars, srchVars,
                   lookVars, detVars>>

\* self._do_rename(temp, new_dir): the step is logged, and _rename makes its three
\* checks
Hop2Check ==
    /\ pc = "hop2"
    /\ ops' = Append(ops, RenameOp(<<temp>>, <<Cur.new_name>>, FALSE))
    /\ IF RenameRejects(fs, <<temp>>, <<Cur.new_name>>)
       THEN /\ rb' = RollbackOrder(ops')
            /\ pc' = "rollback"
       ELSE /\ rb' = rb
            /\ pc' = "hop2os"
    /\ UNCHANGED <<results, fs, interactive, dry_run, to_rename, k, ok, skip, err,
                   working, todo, temp, now, histVars, reqVars, revVars, catVars>>

\* os.rename(temp, new_dir), then op.done = True; working = new_dir.  An empty
\* folder at the destination is replaced (POSIX) or makes os.rename raise
\* (Windows): fail
Hop2Rename ==
    /\ pc = "hop2os"
    /\ \E fail \in BOOLEAN :
        IF OsRenameErr(fs, <<temp>>, <<Cur.new_name>>) \/ fail
        THEN /\ rb' = RollbackOrder(ops)
             /\ pc' = "rollback"
             /\ UNCHANGED <<fs, ops, working, todo>>
        ELSE /\ ops' = [ops EXCEPT ![Len(ops)].done = TRUE]
             /\ fs' = OsRenameApply(fs, <<temp>>, <<Cur.new_name>>)
             /\ working' = Cur.new_name
             /\ todo' = fs[temp].kids
             /\ pc' = IF fs[temp].kids = {} THEN "commit" ELSE "files"
             /\ rb' = rb
    /\ UNCHANGED <<results, interactive, dry_run, to_rename, k, ok, skip, err,
                   temp, now, histVars, reqVars, revVars, catVars>>

(***************************************************************************)
(* _tmdb_request                                                           *)
(***************************************************************************)
\* the requests made (endpoint, params), what the catalog can send back, and "no
\* data" (None).  params is None or a dict, here the list of its (key, value) pairs
Endpoints == {<<"/", "a">>, <<"/", "b">>}
ParamSets == {<<>>, <<<<"q", "1">>>>, <<<<"q", "1">>, <<"y", "2">>>>}
Request(endpoint, params) == [endpoint |-> endpoint, params |-> params]
Requests == {Request(e, p) : e \in Endpoints, p \in ParamSets}
Payloads == {"d1", "d2"}
NoData == "None"

\* urllib.parse.urlencode(params)
RECURSIVE UrlEncode(_)
UrlEncode(params) ==
    IF params = <<>> THEN <<>>
    ELSE <<params[1][1], "=", params[1][2]>>
            \o (IF Len(params) > 1 THEN <<"&">> \o UrlEncode(Tail(params)) ELSE <<>>)

\* url = f"{self.TMDB_BASE}{endpoint}"; if params: url += "?" + urlencode(params)
TMDB_BASE == <<"B">>
UrlNoParams(endpoint, params) == TMDB_BASE \o endpoint
UrlOf(endpoint, params) ==
    IF params # <<>>
    THEN TMDB_BASE \o endpoint \o <<"?">> \o UrlEncode(params)
    ELSE TMDB_BASE \o endpoint
Urls == {UrlOf(r.endpoint, r.params) : r \in Requests}

\* `if url in self._cache`
CachedNever(c, url) == FALSE
Cached(c, url) == c[url] # NoData

\* the state between two runs of execute_renames, for the runs that do not rename
TxnIdle ==
    /\ fs = [n \in TopNames |-> Absent]
    /\ ops = <<>>
    /\ to_rename = <<>>
    /\ k = 1
    /\ ok = 0 /\ skip = 0 /\ err = 0
    /\ working = NmA
    /\ todo = {}
    /\ temp = TmpName(0, 1)
    /\ now = 0
    /\ rb = <<>>
    /\ fs0 = fs
    /\ results0 = <<>>
    /\ rbFail = FALSE
    /\ visited = <<>>
    /\ processed = <<>>
    /\ committed = {}

\* MediaRenamer.__init__: an empty cache; no request under way
ReqInit ==
    /\ cache = [u \in Urls |-> NoData]
    /\ reqArgs = Request(<<"/", "a">>, <<>>)
    /\ reqUrl = UrlOf(reqArgs.endpoint, reqArgs.params)
    /\ depth = 0
    /\ attempts = 0
    /\ reqPc = "idle"
    /\ reqOut = NoData
    /\ fetches = [r \in Requests |-> <<>>]
    /\ known = FALSE

\* the call: a cached url is answered from the cache
ReqCall ==
    /\ reqPc = "idle"
    /\ \E r \in Requests :
        LET url == UrlOf(r.endpoint, r.params)
        IN  /\ reqArgs' = r
            /\ reqUrl' = url
            /\ known' = (fetches[r] # <<>>)
            /\ IF Cached(cache, url)
               THEN reqOut' = cache[url] /\ reqPc' = "done"
               ELSE reqOut' = NoData /\ reqPc' = "try"
    /\ depth' = 1
    /\ attempts' = 0
    /\ UNCHANGED <<cache, fetches, txnVars, histVars, revVars, catVars>>

\* urlopen answers with data: it is cached and returned
ReqSuccess ==
    /\ reqPc = "try"
    /\ depth < RecursionLimit
    /\ \E data \in Payloads :
        /\ cache' = [cache EXCEPT ![reqUrl] = data]
        /\ reqOut' = data
        /\ fetches' = [fetches EXCEPT ![reqArgs] = Append(@, data)]
    /\ attempts' = attempts + 1
    /\ reqPc' = "done"
    /\ UNCHANGED <<reqArgs, reqUrl, depth, known, txnVars, histVars, revVars, catVars>>

\* HTTPError 429: time.sleep(2); return self._tmdb_request(endpoint, params).
\* The nested call finds the url still missing from the cache and tries again
ReqRateLimited ==
    /\ reqPc = "try"
    /\ depth < RecursionLimit
    /\ attempts' = attempts + 1
    /\ depth' = depth + 1
    /\ UNCHANGED <<cache, reqArgs, reqUrl, reqPc, reqOut, fetches, known, txnVars,
                   histVars, revVars, catVars>>

\* any other HTTPError, or any other exception: return None
ReqError ==
    /\ reqPc = "try"
    /\ depth < RecursionLimit
    /\ attempts' = attempts + 1
    /\ reqOut' = NoData
    /\ reqPc' = "done"
    /\ UNCHANGED <<cache, reqArgs, reqUrl, depth, fetches, known, txnVars, histVars,
                   revVars, catVars>>

\* the interpreter's recursion limit is reached inside urlopen: the
\* RecursionError is caught by `except Exception`, and None is returned
ReqOverflow ==
    /\ reqPc = "try"
    /\ depth >= RecursionLimit
    /\ reqOut' = NoData
    /\ reqPc' = "done"
    /\ UNCHANGED <<cache, reqArgs, reqUrl, depth, attempts, fetches, known, txnVars,
                   histVars, revVars, catVars>>

\* the value goes back through every frame to the caller
ReqReturn ==
    /\ reqPc = "done"
    /\ reqPc' = "idle"
    /\ UNCHANGED <<cache, reqArgs, reqUrl, depth, attempts, reqOut, fetches, known,
                   txnVars, histVars, revVars, catVars>>

(***************************************************************************)
(* _generate_search_variants and _search_tmdb                              *)
(***************************************************************************)
\* a title is a sequence of words, the words being separated by one space
Titles ==
    {<<"A">>, <<"A", "and", "B">>, <<"A", "B", "C", "D">>, <<"Long", "-", "B">>,
     <<"A", "-", "B">>, <<"Maedchen">>}
WordLen(w) == CASE w = "Long" -> 4 [] w = "Maedchen" -> 8 [] w = "and" -> 3 [] OTHER -> 1
\* len(' '.join(words))
RECURSIVE SumLen(_)
SumLen(words) == IF words = <<>> THEN 0 ELSE WordLen(Head(words)) + SumLen(Tail(words))
TextLen(words) == IF words = <<>> THEN 0 ELSE SumLen(words) + Len(words) - 1

\* _to_umlauts, word by word
ToUmlauts(words) ==
    [i \in 1..Len(words) |-> IF words[i] = "Maedchen" THEN "Mädchen" ELSE words[i]]

\* ' And ' in title or ' and ' in title
HasAnd(words) == \E i \in 2..(Len(words) - 1) : words[i] \in {"and", "And"}
\* re.sub(r'\s+[Aa]nd\s+', ' & ', title)
Ampersand(words) ==
    [i \in 1..Len(words) |->
        IF i \in 2..(Len(words) - 1) /\ words[i] \in {"and", "And"} THEN "&" ELSE words[i]]
\* ' - ' in title; title.split(' - ')[0].strip()
HasDash(words) == \E i \in 2..(Len(words) - 1) : words[i] = "-"
MainTitle(words) ==
    LET first == CHOOSE i \in 2..(Len(words) - 1) :
                    words[i] = "-" /\ \A j \in 2..(i - 1) : words[j] # "-"
    IN  SubSeq(words, 1, first - 1)

Variant(query, yr) == [query |-> query, yr |-> yr]

UniqueKeepsAll(seq) == seq
\* the first occurrence of every element, in order
Unique(seq) ==
    LET keep == SelectSeq([i \in 1..Len(seq) |-> i],
                          LAMBDA i : \A j \in 1..(i - 1) : seq[j] # seq[i])
    IN  [i \in 1..Len(keep) |-> seq[keep[i]]]

GenerateSearchVariants(title, year) ==
    LET umlaut == ToUmlauts(title)
        amp == Ampersand(title)
        main == MainTitle(title)
    IN  Unique(
            <<Variant(title, year), Variant(title, NoText)>>
            \o (IF umlaut # title
                THEN <<Variant(umlaut, year), Variant(umlaut, NoText)>> ELSE <<>>)
            \o (IF HasAnd(title)
                THEN <<Variant(amp, year), Variant(amp, NoText)>> ELSE <<>>)
            \o (IF Len(title) > 3
                THEN <<Variant(SubSeq(title, 1, 2), year), Variant(SubSeq(title, 1, 3), year)>>
                ELSE <<>>)
            \o (IF HasDash(title) /\ TextLen(main) > 3
                THEN <<Variant(main, year)>> ELSE <<>>))

\* the loop stops asking at 8 results, the first 3 results get their external
\* identifier looked up, and 10 results are returned
EnoughResults == 8
IdLookups == 3
KeptResults == 10

\* an item of data['results']: id (0: none), release year, popularity
Item(id, year, popularity) == [id |-> id, year |-> year, popularity |-> popularity]

\* what the catalog answers to a search: no data; data without 'results'; or
\* data with a list of items
Response(good, has, list) == [ok |-> good, has |-> has, results |-> list]
RespNoData == Response(FALSE, FALSE, <<>>)
RespNoResults == Response(TRUE, FALSE, <<>>)
RespEmpty == Response(TRUE, TRUE, <<>>)
RespTwo == Response(TRUE, TRUE, <<Item(1, Year1999, 1), Item(2, Year2001, 3)>>)
RespDup ==
    Response(TRUE, TRUE,
             <<Item(2, Year1999, 2), Item(0, Year1999, 7), Item(1, Year2001, 5),
               Item(1, Year1999, 9)>>)
RespMany ==
    Response(TRUE, TRUE,
             [i \in 1..12 |->
                Item(i + 2, IF i % 3 = 0 THEN Year1999 ELSE Year2001, i % 4)])
Responses == {RespNoData, RespNoResults, RespEmpty, RespTwo, RespDup, RespMany}

\* `if not data or 'results' not in data: continue`
UsableAlways(resp) == TRUE
Usable(resp) == resp.ok /\ resp.has

\* `if not tmdb_id or tmdb_id in seen_ids: continue`
TakenNever(id, seen) == id = 0
Taken(id, seen) == id = 0 \/ id \in seen

\* `if len(results) < 3`, before _get_imdb_id
LooksUpImdbAlways(found) == TRUE
LooksUpImdb(found) == Len(found) < IdLookups

\* MediaMatch(...) of an item
MatchOf(item, imdb) ==
    [tmdb_id |-> item.id, imdb_id |-> imdb, title |-> <<"t">>,
     original_title |-> <<"t">>, year |-> item.year, popularity |-> item.popularity]

\* key=lambda r: (0 if r.year == year else 1, -r.popularity), or -r.popularity
SortKeyNoYear(r, year) == <<0, 0 - r.popularity>>
SortKey(r, year) ==
    IF year # NoText
    THEN <<IF r.year = year THEN 0 ELSE 1, 0 - r.popularity>>
    ELSE <<0, 0 - r.popularity>>
KeyLess(a, b) == a[1] < b[1] \/ (a[1] = b[1] /\ a[2] < b[2])

\* list.sort(key=...): stable
SortResults(rs, year) ==
    LET n == Len(rs)
        before(j, i) ==
            \/ KeyLess(SortKey(rs[j], year), SortKey(rs[i], year))
            \/ SortKey(rs[j], year) = SortKey(rs[i], year) /\ j < i
        pos(i) == Cardinality({j \in 1..n : before(j, i)}) + 1
    IN  [p \in 1..n |-> rs[CHOOSE i \in 1..n : pos(i) = p]]

\* results[:10]
Keep(rs) == SubSeq(rs, 1, IF Len(rs) < KeptResults THEN Len(rs) ELSE KeptResults)

\* an entry of the request log
Asked(kind, query, yr, resp, id, ans) ==
    [kind |-> kind, query |-> query, yr |-> yr, resp |-> resp, id |-> id, ans |-> ans]

\* _get_imdb_id: no data, or the identifier of the record
ImdbAnswers == {NoText, ImdbValid}

\* the call
SearchCall ==
    /\ sPc = "idle"
    /\ \E title \in Titles, year \in {NoText, Year1999} :
        /\ sTitle' = title
        /\ sYear' = year
        /\ sVariants' = GenerateSearchVariants(title, year)
    /\ sResults' = <<>>
    /\ sSeen' = {}
    /\ sLog' = <<>>
    /\ sPc' = "variant"
    /\ UNCHANGED <<sItems, sOut, lookVars, envVars, txnVars, histVars, reqVars, revVars>>

\* one iteration of `for query, yr in search_variants`, up to the item loop;
\* reading 'results' out of an answer that has none would raise
SearchVariant ==
    /\ sPc = "variant"
    /\ sVariants # <<>>
    /\ Len(sResults) < EnoughResults
    /\ \E resp \in Responses :
        /\ sLog' = Append(sLog, Asked("search", Head(sVariants).query, Head(sVariants).yr,
                                      resp, 0, NoText))
        /\ IF ~Usable(resp)
           THEN sVariants' = Tail(sVariants) /\ UNCHANGED <<sPc, sItems>>
           ELSE IF ~(resp.ok /\ resp.has)
           THEN sPc' = "raised" /\ UNCHANGED <<sVariants, sItems>>
           ELSE sItems' = resp.results /\ sPc' = "items" /\ UNCHANGED sVariants
    /\ UNCHANGED <<sTitle, sYear, sResults, sSeen, sOut, lookVars, envVars, txnVars,
                   histVars, reqVars, revVars>>

\* one iteration of `for item in data['results']`
SearchItem ==
    /\ sPc = "items"
    /\ sItems # <<>>
    /\ LET item == Head(sItems)
       IN  IF Taken(item.id, sSeen)
           THEN UNCHANGED <<sSeen, sResults, sLog>>
           ELSE /\ sSeen' = sSeen \cup {item.id}
                /\ IF LooksUpImdb(sResults)
                   THEN \E ans \in ImdbAnswers :
                         /\ sLog' = Append(sLog, Asked("external_ids", <<>>, NoText,
                                                       RespNoData, item.id, ans))
                         /\ sResults' = Append(sResults, MatchOf(item, ans))
                   ELSE /\ sResults' = Append(sResults, MatchOf(item, NoText))
                        /\ UNCHANGED sLog
    /\ sItems' = Tail(sItems)
    /\ UNCHANGED <<sPc, sTitle, sYear, sVariants, sOut, lookVars, envVars, txnVars,
                   histVars, reqVars, revVars>>

\* the item loop is over: the next variant
SearchItemsEnd ==
    /\ sPc = "items"
    /\ sItems = <<>>
    /\ sVariants' = Tail(sVariants)
    /\ sPc' = "variant"
    /\ UNCHANGED <<sTitle, sYear, sItems, sResults, sSeen, sLog, sOut, lookVars, envVars, txnVars,
                   histVars, reqVars, revVars>>

\* the variant loop is over, or broken off: sort, and return results[:10]
SearchReturn ==
    /\ sPc = "variant"
    /\ sVariants = <<>> \/ Len(sResults) >= EnoughResults
    /\ sOut' = Keep(SortResults(sResults, sYear))
    /\ sPc' = "done"
    /\ UNCHANGED <<sTitle, sYear, sVariants, sItems, sResults, sSeen, sLog, lookVars,
                   envVars, txnVars, histVars, reqVars, revVars>>

\* no search under way
SearchInit ==
    /\ sPc = "idle"
    /\ sTitle = <<>>
    /\ sYear = NoText
    /\ sVariants = <<>>
    /\ sItems = <<>>
    /\ sResults = <<>>
    /\ sSeen = {}
    /\ sLog = <<>>
    /\ sOut = <<>>

\* no lookup under way
LookupInit ==
    /\ mPc = "idle"
    /\ mInput = <<>>
    /\ mLog = <<>>
    /\ mOut = <<>>
    /\ mRes = <<>>

(***************************************************************************)
(* scan_folder                                                             *)
(***************************************************************************)
\* extracted_year: None, or four digits
Years == {NoText, Year1999, Year2001}

\* MediaType, as far as scan_folder tells the values apart
MOVIE == "MOVIE"
COLLECTION == "COLLECTION"
UNKNOWN == "UNKNOWN"

\* the folders handed to scan_all, in scan order
Folders == <<NmA, NmB>>

\* VideoFile: whether a title was extracted, the extracted year, and what
\* _search_tmdb returns for it
Video(title, year, rank) == [title |-> title, year |-> year, rank |-> rank]

\* re.match(r'^.+\s\(\d{4}\)\s\[imdbid-tt\d{7,}\]$', folder_name): `$` is also
\* met before a newline that ends the name, `.` is any character but a newline
Whitespace == {" ", "\t", "\n"}
ImdbTag == <<"[", "i", "m", "d", "b", "i", "d", "-", "t", "t">>
CanonicalShape(folder_name) ==
    LET text == IF folder_name # <<>> /\ folder_name[Len(folder_name)] = "\n"
                THEN SubSeq(folder_name, 1, Len(folder_name) - 1)
                ELSE folder_name
        n == Len(text)
        \* the digits right before the last character
        run == CHOOSE m \in 0..n :
                  /\ \A i \in (n - m)..(n - 1) : i >= 1 /\ text[i] \in Digits
                  /\ (n - m - 1 >= 1 => text[n - m - 1] \notin Digits)
        t == n - run - Len(ImdbTag)   \* where the tag starts
    IN  /\ n >= 1
        /\ text[n] = "]"
        /\ run >= MinImdbDigits
        /\ t >= 10
        /\ SubSeq(text, t, t + Len(ImdbTag) - 1) = ImdbTag
        /\ text[t - 1] \in Whitespace
        /\ text[t - 2] = ")"
        /\ \A i \in (t - 6)..(t - 3) : text[i] \in Digits
        /\ text[t - 7] = "("
        /\ text[t - 8] \in Whitespace
        /\ \A i \in 1..(t - 9) : text[i] # "\n"

\* what scan_folder finds out about a folder before it classifies: whether the
\* name has the canonical shape, _detect_type's answer, _extract_title_year's
\* answer, and what _search_tmdb returns for the title
Found(canon, type, videos, title, year, rank) ==
    [canon |-> canon, type |-> type, videos |-> videos, title |-> title,
     year |-> year, rank |-> rank]

PlainVideo == Video(TRUE, NoText, <<>>)
\* a movie of a collection: identified, ambiguous, without a title, or with a
\* title the catalog does not know
VideoAuto == Video(TRUE, Year1999, <<MatchA>>)
VideoUnsure == Video(TRUE, NoText, <<MatchA, MatchB>>)
VideoUntitled == Video(FALSE, NoText, <<>>)
VideoNoMatch == Video(TRUE, Year1999, <<>>)
\* a folder with the canonical name, one without videos, one without a title
FoundCanonical == Found(TRUE, MOVIE, <<>>, FALSE, NoText, <<>>)
FoundEmpty == Found(FALSE, UNKNOWN, <<>>, TRUE, NoText, <<>>)
FoundUntitled == Found(FALSE, MOVIE, <<PlainVideo>>, FALSE, NoText, <<>>)
\* a folder with a title, its extracted year and the rank result
FoundTitled(year, rank) == Found(FALSE, MOVIE, <<PlainVideo>>, TRUE, year, rank)
FoundCollections ==
    {Found(FALSE, COLLECTION, vs, TRUE, NoText, <<>>) :
        vs \in {<<VideoAuto, VideoUnsure>>, <<VideoUnsure, VideoUntitled>>,
                <<VideoNoMatch, VideoAuto>>}}
\* the first folder is anything; the second is not a collection, and beside a
\* collection it is a folder that is done already
FoundAt(j, before) ==
    IF j = 1
    THEN {FoundCanonical, FoundEmpty, FoundUntitled,
          FoundTitled(Year1999, <<MatchA>>), FoundTitled(Year2001, <<MatchA>>),
          FoundTitled(NoText, <<MatchB>>), FoundTitled(NoText, <<MatchA, MatchB>>),
          FoundTitled(Year1999, <<>>)} \cup FoundCollections
    ELSE IF before[1].type = COLLECTION
    THEN {FoundCanonical}
    ELSE {FoundCanonical, FoundTitled(Year1999, <<MatchA>>),
          FoundTitled(NoText, <<MatchA, MatchB>>)}

\* ScanResult, with detected_type read as is_collection
ScanResult(path, status, sel, coll, matches) ==
    [Outcome(path, status, sel) EXCEPT !.coll = coll, !.matches = matches]

\* `len(matches) == 1 and year and matches[0].year == year`
SingleNoYearCheck(matches, year) == Len(matches) = 1 /\ matches[1].year = year
SingleYearMatch(matches, year) ==
    Len(matches) = 1 /\ year # NoText /\ matches[1].year = year

\* the classification from the rank result
Classify(matches, year) ==
    IF matches = <<>>
    THEN [status |-> NONE, sel |-> <<>>]
    ELSE IF SingleYearMatch(matches, year)
    THEN [status |-> AUTO, sel |-> <<matches[1]>>]
    ELSE [status |-> UNSURE, sel |-> <<>>]

ScanFolder(path, d) ==
    IF d.canon
    THEN ScanResult(path, DONE, <<>>, FALSE, <<>>)
    ELSE IF d.videos = <<>>
    THEN ScanResult(path, NONE, <<>>, d.type = COLLECTION, <<>>)
    ELSE IF d.type = COLLECTION
    THEN ScanResult(path, MANUAL, <<>>, TRUE, <<>>)
    ELSE IF ~d.title
    THEN ScanResult(path, NONE, <<>>, FALSE, <<>>)
    ELSE LET c == Classify(d.rank, d.year)
         IN  ScanResult(path, c.status, c.sel, FALSE, d.rank)

\* what scan_folder calls, in order: _detect_type walks the directory,
\* _search_tmdb asks the catalog
ScanCallsEager(d) == <<"_detect_type", "_extract_title_year">>
ScanCalls(d) ==
    IF d.canon
    THEN <<>>
    ELSE <<"_detect_type", "_extract_title_year">> \o
         (IF d.videos = <<>>
          THEN <<>>
          ELSE IF d.type = COLLECTION
          THEN [j \in 1..Len(SelectSeq(d.videos, LAMBDA v : v.title)) |-> "_search_tmdb"]
          ELSE IF ~d.title
          THEN <<>>
          ELSE <<"_search_tmdb">>)

\* the path of the j-th movie of a collection
ItemPath(path, j) == path \o <<"/", IdChar(j)>>

\* CollectionItem: path, matches, selected_match, status
PrepareCollectionItems(path, videos) ==
    [j \in 1..Len(videos) |->
        LET v == videos[j]
            matches == IF v.title THEN v.rank ELSE <<>>
            auto == SingleYearMatch(matches, v.year)
        IN  [path |-> ItemPath(path, j),
             matches |-> matches,
             sel |-> IF auto THEN <<matches[1]>> ELSE <<>>,
             status |-> IF auto THEN AUTO ELSE UNSURE]]

\* scan_all: one iteration of `for i, folder in enumerate(folders)`
ScanStep ==
    /\ pc = "scan"
    /\ Len(scanned) < Len(Folders)
    /\ LET j == Len(scanned) + 1
           path == Folders[j]
       IN  \E d \in FoundAt(j, scanned) :
            /\ results' = Append(results, ScanFolder(path, d))
            /\ items' = [items EXCEPT ![path] =
                            IF ~d.canon /\ d.videos # <<>> /\ d.type = COLLECTION
                            THEN PrepareCollectionItems(path, d.videos)
                            ELSE <<>>]
            /\ scanned' = Append(scanned, d)
            /\ calls' = Append(calls, ScanCalls(d))
    /\ UNCHANGED <<fs, ops, pc, interactive, dry_run, to_rename, k, ok, skip, err,
                   working, todo, temp, now, rb, histVars, reqVars, catVars, queue, cmds, cmd>>

\* main(): after scan_all, interactive_review or execute_renames
ScanDone ==
    /\ pc = "scan"
    /\ Len(scanned) = Len(Folders)
    /\ pc' = IF interactive THEN "menu" ELSE "exec"
    /\ UNCHANGED <<results, fs, ops, interactive, dry_run, to_rename, k, ok, skip, err,
                   working, todo, temp, now, rb, histVars, reqVars, catVars, revVars>>

(***************************************************************************)
(* scan_folder's detection: _find_videos, _is_collection, _detect_type     *)
(***************************************************************************)
SERIES == "SERIES"
Year1977 == <<"1", "9", "7", "7">>
Year1980 == <<"1", "9", "8", "0">>

\* what a folder's name matches: the canonical shape, a collection phrase, a
\* season/series cue
FolderName(canon, phrase, cue) == [canon |-> canon, phrase |-> phrase, cue |-> cue]
FolderNames == {FolderName(c, p, q) : c \in BOOLEAN, p \in BOOLEAN, q \in BOOLEAN}

\* VideoFile: whether _parse_episode found an episode, size_gb, extracted_title,
\* extracted_year
VideoFile(episode, size_gb, title, year) ==
    [episode |-> episode, size_gb |-> size_gb, title |-> title, year |-> year]
\* vf.media_type
MediaTypeOf(v) == IF v.episode THEN SERIES ELSE MOVIE
Extracted ==
    {<<NmA, Year1977>>, <<NmA, Year1980>>, <<NmA, NoText>>, <<NmB, Year1980>>,
     <<NoText, NoText>>}
VideoFiles ==
    {VideoFile(e, g, x[1], x[2]) : e \in BOOLEAN, g \in 1..3, x \in Extracted}
\* the videos a walk can meet, in the order of the walk, MaxVideos at most
MaxVideos == 2
Walks == UNION {[1..n -> VideoFiles] : n \in 0..MaxVideos}

\* sorted(videos, key=lambda v: v.size_bytes, reverse=True): stable
SortBySize(vs) ==
    LET n == Len(vs)
        before(j, i) ==
            \/ vs[j].size_gb > vs[i].size_gb
            \/ vs[j].size_gb = vs[i].size_gb /\ j < i
        pos(i) == Cardinality({j \in 1..n : before(j, i)}) + 1
    IN  [p \in 1..n |-> vs[CHOOSE i \in 1..n : pos(i) = p]]

\* _is_collection(folder_name, videos)
IsCollectionByName(name, videos) == name.phrase
IsCollectionFolder(name, videos) ==
    \/ name.phrase
    \/ /\ Len(videos) >= 2
       /\ LET years == {videos[i].year : i \in 1..Len(videos)} \ {NoText}
              titles == {videos[i].title : i \in 1..Len(videos)} \ {NoText}
              big_movies == SelectSeq(videos, LAMBDA v : v.size_gb > 1 /\ ~v.episode)
          IN  \/ Cardinality(years) >= 2
              \/ Cardinality(titles) >= 2
              \/ Len(big_movies) >= 2

\* _detect_type, once _find_videos has returned; the variant tests the largest
\* video where the source tests the largest movie
DetectTypeBestVideo(name, videos) ==
    LET eps == SelectSeq(videos, LAMBDA v : MediaTypeOf(v) = SERIES)
    IN  IF videos = <<>> THEN UNKNOWN
        ELSE IF IsCollectionFolder(name, videos) THEN COLLECTION
        ELSE IF Len(eps) >= 2 THEN SERIES
        ELSE IF MediaTypeOf(videos[1]) = MOVIE /\ videos[1].size_gb > 1 THEN MOVIE
        ELSE IF name.cue THEN SERIES
        ELSE MediaTypeOf(videos[1])
DetectType(name, videos) ==
    LET eps == SelectSeq(videos, LAMBDA v : MediaTypeOf(v) = SERIES)
        movies == SelectSeq(videos, LAMBDA v : MediaTypeOf(v) = MOVIE)
    IN  IF videos = <<>> THEN UNKNOWN
        ELSE IF IsCollectionFolder(name, videos) THEN COLLECTION
        ELSE IF Len(eps) >= 2 THEN SERIES
        ELSE IF movies # <<>> /\ movies[1].size_gb > 1 THEN MOVIE
        ELSE IF name.cue THEN SERIES
        ELSE MediaTypeOf(videos[1])

\* no folder is being looked at
DetectInit ==
    /\ dPc = "idle"
    /\ dFolder = FolderName(FALSE, FALSE, FALSE)
    /\ dFound = <<>>
    /\ dVideos = <<>>
    /\ dType = UNKNOWN
    /\ dItems = <<>>

\* scan_folder(folder): a folder with the canonical name is done, a movie with
\* no videos listed; any other goes to _detect_type
DetectCall ==
    /\ dPc = "idle"
    /\ \E name \in FolderNames, walk \in Walks :
        /\ dFolder' = name
        /\ dFound' = walk
        /\ IF name.canon
           THEN dType' = MOVIE /\ dPc' = "done"
           ELSE dType' = UNKNOWN /\ dPc' = "find"
    /\ UNCHANGED <<dVideos, dItems, alien, srchVars, lookVars, txnVars, histVars, reqVars,
                   revVars>>

\* videos = self._find_videos(directory)
DetectFind ==
    /\ dPc = "find"
    /\ dVideos' = SortBySize(dFound)
    /\ dPc' = "type"
    /\ UNCHANGED <<dFolder, dFound, dType, dItems, alien, srchVars, lookVars, txnVars,
                   histVars, reqVars, revVars>>

\* the rest of _detect_type; scan_folder goes on to the items of a collection
DetectClassify ==
    /\ dPc = "type"
    /\ dType' = DetectType(dFolder, dVideos)
    /\ dPc' = IF dVideos # <<>> /\ dType' = COLLECTION THEN "items" ELSE "done"
    /\ UNCHANGED <<dFolder, dFound, dVideos, dItems, alien, srchVars, lookVars, txnVars,
                   histVars, reqVars, revVars>>

\* result.collection_items = self._prepare_collection_items(videos), whatever
\* the catalog knows of each title
DetectItems ==
    /\ dPc = "items"
    /\ \E rank \in {<<>>, <<MatchA>>} :
        dItems' = PrepareCollectionItems(
                      NmA, [j \in 1..Len(dVideos) |->
                                Video(dVideos[j].title # NoText, dVideos[j].year, rank)])
    /\ dPc' = "done"
    /\ UNCHANGED <<dFolder, dFound, dVideos, dType, alien, srchVars, lookVars, txnVars,
                   histVars, reqVars, revVars>>

(***************************************************************************)
(* interactive_review and handle_collection                                *)
(***************************************************************************)
\* what the user types in the dialog of one outcome or one collection item:
\* '0'; 'm' and an id that _manual_lookup finds or does not find; a number (Enter
\* is 1)
Input(key, num, found) == [key |-> key, num |-> num, found |-> found]
Inputs ==
    {Input("0", 0, <<>>), Input("m", 0, <<>>), Input("m", 0, <<MatchB>>),
     Input("n", 1, <<>>), Input("n", 2, <<>>)}
\* a number outside the list is answered "Invalid" and asked again
ValidInput(matches, inp) == inp.key = "n" => inp.num \in 1..Len(matches)

\* the dialog of interactive_review for one outcome that is not a collection
ReviewKeepsStatus(r, inp) ==
    IF inp.key = "m" /\ inp.found # <<>> THEN [r EXCEPT !.sel = inp.found] ELSE r
ReviewOutcome(r, inp) ==
    IF r.matches # <<>>
    THEN CASE inp.key = "0" -> [r EXCEPT !.status = SKIP]
           [] inp.key = "m" ->
                IF inp.found # <<>>
                THEN [r EXCEPT !.sel = inp.found, !.status = MANUAL]
                ELSE r
           [] OTHER -> [r EXCEPT !.sel = <<r.matches[inp.num]>>, !.status = AUTO]
    ELSE IF inp.key = "m" /\ inp.found # <<>>
         THEN [r EXCEPT !.sel = inp.found, !.status = MANUAL]
         ELSE [r EXCEPT !.status = SKIP]

\* the dialog of handle_collection for one item
ReviewItem(it, inp) ==
    IF it.matches # <<>>
    THEN CASE inp.key = "0" -> [it EXCEPT !.status = SKIP]
           [] inp.key = "m" ->
                IF inp.found # <<>>
                THEN [it EXCEPT !.sel = inp.found, !.status = MANUAL]
                ELSE it
           [] OTHER -> [it EXCEPT !.sel = <<it.matches[inp.num]>>, !.status = AUTO]
    ELSE IF inp.key = "m"
         THEN IF inp.found # <<>>
              THEN [it EXCEPT !.sel = inp.found, !.status = MANUAL]
              ELSE [it EXCEPT !.status = SKIP]
         ELSE it

\* `if result.detected_type == MediaType.COLLECTION:`
IsCollectionNever(r) == FALSE
IsCollection(r) == r.coll

\* handle_collection: result.status = MatchStatus.SKIP.  The entries of results
\* with the collection's path are one and the same object (see the '0' choice)
SkipCollection(res, path) ==
    [i \in 1..Len(res) |->
        IF res[i].coll /\ res[i].path = path
        THEN [res[i] EXCEPT !.status = SKIP] ELSE res[i]]

\* handle_collection: new_results
Expanded(its) ==
    LET picked == SelectSeq(its, LAMBDA it : it.status \in {AUTO, MANUAL} /\ it.sel # <<>>)
    IN  [j \in 1..Len(picked) |->
            ScanResult(picked[j].path, picked[j].status, picked[j].sel, FALSE,
                       picked[j].matches)]

\* interactive_review: to_review, and the indices of 'a'
ToReview(res) ==
    SelectSeq([i \in 1..Len(res) |-> i],
              LAMBDA i : res[i].status \in {UNSURE, NONE, MANUAL})
NotRenamed(res) ==
    SelectSeq([i \in 1..Len(res) |-> i], LAMBDA i : res[i].status # RENAMED)

\* `if result.status in (MatchStatus.DONE, MatchStatus.RENAMED): continue`
PassedOverDoneOnly(r) == r.status = DONE
PassedOver(r) == r.status \in {DONE, RENAMED}

\* execute_renames for one outcome it picked, seen from the outcome: the answer of
\* the identifier fetch and whether the transaction was committed are the
\* environment's
ExecOne(r, ans, committing, dry) ==
    LET m0 == r.sel[1]
        m == IF m0.imdb_id = NoText THEN [m0 EXCEPT !.imdb_id = ans] ELSE m0
        r1 == [r EXCEPT !.sel = <<m>>]
        r2 == [r1 EXCEPT !.new_name = SanitizeText(RawName(m))]
    IN  IF m.imdb_id = NoText \/ ~IsImdbId(m.imdb_id) THEN r1
        ELSE IF SanitizeRaises(RawName(m)) THEN r1
        ELSE IF dry THEN r2
        ELSE IF committing THEN [r2 EXCEPT !.status = RENAMED]
        ELSE r2

\* _get_imdb_id, as the review sees it: no identifier, or a valid one
IdAnswers == {NoText, ImdbOther}
EligibleSet(res) == {Eligible(res)[i] : i \in 1..Len(Eligible(res))}
ExecAll(res, ans, committing, dry) ==
    [i \in 1..Len(res) |->
        IF i \in EligibleSet(res) THEN ExecOne(res[i], ans[i], committing[i], dry)
        ELSE res[i]]

\* main() without the review: execute_renames(results, dry_run)
RunExec ==
    /\ pc = "exec"
    /\ \E ans \in [EligibleSet(results) -> IdAnswers],
          committing \in [EligibleSet(results) -> BOOLEAN] :
        results' = ExecAll(results, ans, committing, dry_run)
    /\ pc' = "done"
    /\ UNCHANGED <<fs, ops, interactive, dry_run, to_rename, k, ok, skip, err,
                   working, todo, temp, now, rb, histVars, reqVars, catVars, revVars>>

\* 'q'
CmdQuit ==
    /\ pc = "menu"
    /\ pc' = "done"
    /\ UNCHANGED <<results, fs, ops, interactive, dry_run, to_rename, k, ok, skip, err,
                   working, todo, temp, now, rb, histVars, reqVars, catVars, revVars>>

\* 'x': execute_renames, then every automatic outcome with a selection is marked
CmdX ==
    /\ pc = "menu"
    /\ cmds < MaxCmds
    /\ \E ans \in [EligibleSet(results) -> IdAnswers],
          committing \in [EligibleSet(results) -> BOOLEAN] :
        results' = MarkRenamed(ExecAll(results, ans, committing, dry_run), dry_run)
    /\ cmds' = cmds + 1
    /\ cmd' = "x"
    /\ UNCHANGED <<fs, ops, pc, interactive, dry_run, to_rename, k, ok, skip, err,
                   working, todo, temp, now, rb, histVars, reqVars, catVars, items, queue,
                   scanned, calls>>

\* a command that sets `indices`; with none, "Nothing to work on"
StartReview(name, indices) ==
    /\ pc = "menu"
    /\ cmds < MaxCmds
    /\ cmds' = cmds + 1
    /\ cmd' = name
    /\ queue' = indices
    /\ pc' = IF indices = <<>> THEN "menu" ELSE "review"
    /\ UNCHANGED <<results, fs, ops, interactive, dry_run, to_rename, k, ok, skip, err,
                   working, todo, temp, now, rb, histVars, reqVars, catVars, items, scanned, calls>>

\* Enter or 'auto'
CmdEnter == StartReview("enter", ToReview(results))
\* 'a'
CmdAll == StartReview("a", NotRenamed(results))
\* numbers: here one number in range
CmdPick == \E i \in 1..Len(results) : StartReview("pick", <<i>>)

\* one iteration of `for idx in indices`: an outcome that is done or renamed
ReviewSkip ==
    /\ pc = "review"
    /\ queue # <<>>
    /\ PassedOver(results[Head(queue)])
    /\ queue' = Tail(queue)
    /\ UNCHANGED <<results, fs, ops, pc, interactive, dry_run, to_rename, k, ok, skip,
                   err, working, todo, temp, now, rb, histVars, reqVars, catVars, items, cmds,
                   cmd, scanned, calls>>

\* one iteration of `for idx in indices`: a collection, through handle_collection
\* (the choice 's' does what Enter does)
ReviewCollection ==
    /\ pc = "review"
    /\ queue # <<>>
    /\ LET r == results[Head(queue)]
           its == items[r.path]
       IN  /\ ~PassedOver(r)
           /\ IsCollection(r)
           /\ \E choice \in {"q", "0", "", "a"}, inps \in [1..Len(its) -> Inputs] :
                LET reviewed == {j \in 1..Len(its) :
                                    choice = "a" \/ its[j].status # AUTO}
                    its1 == [j \in 1..Len(its) |->
                                IF j \in reviewed THEN ReviewItem(its[j], inps[j])
                                ELSE its[j]]
                IN  IF its = <<>> \/ choice = "q"
                    THEN UNCHANGED <<results, items>>
                    ELSE IF choice = "0"
                    THEN /\ results' = Append(SkipCollection(results, r.path),
                                              [r EXCEPT !.status = SKIP])
                         /\ UNCHANGED items
                    ELSE /\ \A j \in reviewed : ValidInput(its[j].matches, inps[j])
                         /\ results' = SkipCollection(results, r.path) \o Expanded(its1)
                         /\ items' = [items EXCEPT ![r.path] = its1]
    /\ Len(results') <= MaxResults
    /\ queue' = Tail(queue)
    /\ UNCHANGED <<fs, ops, pc, interactive, dry_run, to_rename, k, ok, skip, err,
                   working, todo, temp, now, rb, histVars, reqVars, catVars, cmds, cmd, scanned, calls>>

\* one iteration of `for idx in indices`: the dialog of any other outcome
ReviewDialog ==
    /\ pc = "review"
    /\ queue # <<>>
    /\ LET idx == Head(queue)
           r == results[idx]
       IN  /\ ~PassedOver(r)
           /\ ~IsCollection(r)
           /\ \E inp \in Inputs :
                /\ ValidInput(r.matches, inp)
                /\ results' = [results EXCEPT ![idx] = ReviewOutcome(r, inp)]
    /\ queue' = Tail(queue)
    /\ UNCHANGED <<fs, ops, pc, interactive, dry_run, to_rename, k, ok, skip, err,
                   working, todo, temp, now, rb, histVars, reqVars, catVars, items, cmds, cmd,
                   scanned, calls>>

\* the loop is over: back to the menu
ReviewEnd ==
    /\ pc = "review"
    /\ queue = <<>>
    /\ pc' = "menu"
    /\ UNCHANGED <<results, fs, ops, interactive, dry_run, to_rename, k, ok, skip, err,
                   working, todo, temp, now, rb, histVars, reqVars, catVars, revVars>>

\* nothing scanned, no command given
RevInit ==
    /\ items = [n \in {Folders[j] : j \in 1..Len(Folders)} |-> <<>>]
    /\ queue = <<>>
    /\ cmds = 0
    /\ cmd = ""
    /\ scanned = <<>>
    /\ calls = <<>>

(***************************************************************************)
(* _manual_lookup, as called by the 'm' choice of interactive_review       *)
(***************************************************************************)
\* SUPERSCRIPT TWO: str.isdigit() is true of it, int() raises ValueError on it and
\* \d does not match it
Superscript2 == "²"
DigitChars == <<"0", "1", "2", "3", "4", "5", "6", "7", "8", "9">>

\* manual.isdigit()
IsDigit(s) == s # <<>> /\ \A i \in 1..Len(s) : s[i] \in Digits \cup {Superscript2}
\* int(manual) returns rather than raises
IntParses(s) == s # <<>> /\ \A i \in 1..Len(s) : s[i] \in Digits
RECURSIVE IntOf(_)
IntOf(s) ==
    IF s = <<>> THEN 0
    ELSE 10 * IntOf(SubSeq(s, 1, Len(s) - 1))
            + ((CHOOSE d \in 1..10 : DigitChars[d] = s[Len(s)]) - 1)

\* manual.startswith('tt')
StartsWithTT(s) == Len(s) >= 2 /\ s[1] = "t" /\ s[2] = "t"

\* `manual.startswith('tt') or (manual.isdigit() and len(manual) >= 7)`
LookupDigits == 7
TakenAsXref(s) == StartsWithTT(s) \/ (IsDigit(s) /\ Len(s) >= LookupDigits)

\* the local `manual` once the first `if` is over: 'tt' + manual where it applies
Prefixed(s) == IF TakenAsXref(s) /\ ~StartsWithTT(s) THEN <<"t", "t">> \o s ELSE s

\* re.match(r'^tt\d{7,8}$', manual)
XrefMinDigits == 7
XrefMaxDigits == 8
IsXref(s) ==
    /\ StartsWithTT(s)
    /\ Len(s) - 2 \in XrefMinDigits..XrefMaxDigits
    /\ \A i \in 3..Len(s) : s[i] \in Digits

\* the texts typed at the 'ID:' prompt (input(...).strip()): nothing, digits of
\* every length up to MaxDigits, with and without 'tt' or another prefix, and
\* with and without a character that is no decimal digit after them
MaxDigits == 9
ManualPrefixes == {<<>>, <<"t", "t">>, <<"t">>, <<"x">>}
ManualSuffixes == {<<>>, <<"x">>, <<Superscript2>>}
ManualInputs ==
    {p \o Rep("1", n) \o s : p \in ManualPrefixes, n \in 0..MaxDigits, s \in ManualSuffixes}

\* the outcomes the dialog is opened on
Reviewed ==
    {ScanResult(NmA, UNSURE, <<>>, FALSE, <<MatchA, MatchB>>),
     ScanResult(NmA, NONE, <<>>, FALSE, <<>>),
     ScanResult(NmA, MANUAL, <<MatchA>>, FALSE, <<MatchA>>),
     ScanResult(NmA, MANUAL, <<MatchA>>, FALSE, <<>>)}

\* what _tmdb_request answers to /find/{id}: None, data with no result, data with
\* a result
FindAnswers == {"None", "empty", "found"}
\* what _tmdb_request answers to /movie/{id} and /tv/{id}: None, data without
\* 'id', data with 'id'
DirectAnswers == {"None", "noid", "data"}
FoundId == 7

\* MediaMatch(...) of _manual_lookup
LookupMatch(id, imdb) ==
    [tmdb_id |-> id, imdb_id |-> imdb, title |-> <<"t">>, original_title |-> <<"t">>,
     year |-> Year1999, popularity |-> 0]

\* an entry of the request log
Fetched(kind, id, ans) == [kind |-> kind, id |-> id, ans |-> ans]
\* how the call ended: `return None`, `return MediaMatch(...)`, or ValueError
Ended(res, match) == [res |-> res, match |-> match]

\* the 'm' choice: manual = input("  ID: ").strip(); self._manual_lookup(manual)
LookupCall ==
    /\ mPc = "idle"
    /\ \E text \in ManualInputs, r \in Reviewed :
        /\ mInput' = text
        /\ mRes' = <<r>>
    /\ mLog' = <<>>
    /\ mOut' = <<>>
    /\ mPc' = "find"
    /\ UNCHANGED <<srchVars, envVars, txnVars, histVars, reqVars, revVars>>

\* `if not manual: return None`, and the cross-reference lookup
LookupFind ==
    /\ mPc = "find"
    /\ IF mInput = <<>>
       THEN /\ mOut' = <<Ended("None", <<>>)>>
            /\ mPc' = "done"
            /\ UNCHANGED mLog
       ELSE IF TakenAsXref(mInput) /\ IsXref(Prefixed(mInput))
       THEN \E ans \in FindAnswers :
             /\ mLog' = Append(mLog, Fetched("find", Prefixed(mInput), ans))
             /\ IF ans = "found"
                THEN /\ mOut' = <<Ended("match",
                                        <<LookupMatch(FoundId, Prefixed(mInput))>>)>>
                     /\ mPc' = "done"
                ELSE /\ mPc' = "fetch"
                     /\ UNCHANGED mOut
       ELSE /\ mPc' = "fetch"
            /\ UNCHANGED <<mLog, mOut>>
    /\ UNCHANGED <<mInput, mRes, srchVars, envVars, txnVars, histVars, reqVars, revVars>>

\* `if manual.isdigit():`, tmdb_id = int(manual), and the fetch of the movie
LookupMovie ==
    /\ mPc = "fetch"
    /\ IF ~IsDigit(Prefixed(mInput))
       THEN /\ mOut' = <<Ended("None", <<>>)>>
            /\ mPc' = "done"
            /\ UNCHANGED mLog
       ELSE IF ~IntParses(Prefixed(mInput))
       THEN /\ mOut' = <<Ended("ValueError", <<>>)>>
            /\ mPc' = "done"
            /\ UNCHANGED mLog
       ELSE \E ans \in DirectAnswers :
             /\ mLog' = Append(mLog, Fetched("movie", IntOf(Prefixed(mInput)), ans))
             /\ mPc' = IF ans = "data" THEN "movie_ids" ELSE "tv"
             /\ UNCHANGED mOut
    /\ UNCHANGED <<mInput, mRes, srchVars, envVars, txnVars, histVars, reqVars, revVars>>

\* the fetch of the series
LookupTv ==
    /\ mPc = "tv"
    /\ \E ans \in DirectAnswers :
        /\ mLog' = Append(mLog, Fetched("tv", IntOf(Prefixed(mInput)), ans))
        /\ IF ans = "data"
           THEN /\ mPc' = "tv_ids"
                /\ UNCHANGED mOut
           ELSE /\ mOut' = <<Ended("None", <<>>)>>
                /\ mPc' = "done"
    /\ UNCHANGED <<mInput, mRes, srchVars, envVars, txnVars, histVars, reqVars, revVars>>

\* imdb_id = self._get_imdb_id(tmdb_id, ...); return MediaMatch(...)
LookupImdbId ==
    /\ mPc \in {"movie_ids", "tv_ids"}
    /\ \E imdb \in ImdbAnswers :
        /\ mLog' = Append(mLog, Fetched("external_ids", IntOf(Prefixed(mInput)), imdb))
        /\ mOut' = <<Ended("match", <<LookupMatch(IntOf(Prefixed(mInput)), imdb)>>)>>
    /\ mPc' = "done"
    /\ UNCHANGED <<mInput, mRes, srchVars, envVars, txnVars, histVars, reqVars, revVars>>

\* back in interactive_review: `if match: ... else: ...`; a ValueError is caught
\* nowhere and ends the review
LookupReturn ==
    /\ mPc = "done"
    /\ IF mOut[1].res = "ValueError"
       THEN /\ mPc' = "raised"
            /\ UNCHANGED mRes
       ELSE /\ mPc' = "reviewed"
            /\ mRes' = Append(mRes, ReviewOutcome(mRes[1], Input("m", 0, mOut[1].match)))
    /\ UNCHANGED <<mInput, mLog, mOut, srchVars, envVars, txnVars, histVars, reqVars, revVars>>

(***************************************************************************)
(* One call of execute_renames on a scanned and reviewed batch             *)
(***************************************************************************)
KidSets == {K \in SUBSET InitKidNames : Cardinality(K) <= MaxKids}

\* the filesystem the run starts on: the folder A with its children; or A on
\* another device, a lone file or missing; or, beside A, the target of MatchA
\* already there (on either device) or a temporary name left by an interrupted run
PlainKids == {Kid(<<"a">>, "", "mkv")}
FsOf(a, ta, tmp) ==
    [n \in TopNames |->
        CASE n = NmA -> a
          [] n = NmB -> Dir(ParentDev, {})
          [] n = NmF -> File(ParentDev)
          [] n = TargetA -> ta
          [] n = TmpName(0, 1) -> tmp
          [] OTHER -> Absent]
InitFs ==
    {FsOf(Dir(ParentDev, K), Absent, Absent) : K \in KidSets}
        \cup {FsOf(a, Absent, Absent) : a \in {Dir(1, {}), File(1), Absent}}
        \cup {FsOf(Dir(ParentDev, PlainKids), ta, Absent) :
                ta \in {Dir(ParentDev, PlainKids), Dir(1, {})}}
        \cup {FsOf(Dir(ParentDev, PlainKids), Absent, Dir(ParentDev, {}))}

FirstOutcomes ==
    {Outcome(NmA, AUTO, <<MatchA>>), Outcome(NmA, MANUAL, <<MatchB>>),
     Outcome(NmA, AUTO, <<MatchLong>>), Outcome(TargetA, AUTO, <<MatchA>>),
     Outcome(NmA, AUTO, <<MatchMark>>),
     Outcome(NmA, UNSURE, <<>>)}
SecondOutcomes ==
    {Outcome(NmA, AUTO, <<MatchA>>), Outcome(NmF, MANUAL, <<MatchB>>),
     Outcome(NmB, SKIP, <<MatchA>>), Outcome(NmB, NONE, <<>>),
     Outcome(NmB, DONE, <<>>), Outcome(NmB, RENAMED, <<MatchA>>),
     ScanResult(NmB, MANUAL, <<>>, TRUE, <<>>)}

Init ==
    /\ results \in {<<a, b>> : a \in FirstOutcomes, b \in SecondOutcomes}
    /\ fs \in InitFs
    /\ interactive \in BOOLEAN
    /\ dry_run \in BOOLEAN
    /\ pc = "idle"
    /\ ops = <<>>
    /\ to_rename = <<>>
    /\ k = 1
    /\ ok = 0 /\ skip = 0 /\ err = 0
    /\ working = NmA
    /\ todo = {}
    /\ temp = TmpName(0, 1)
    /\ now = 0
    /\ rb = <<>>
    /\ fs0 = fs
    /\ results0 = Snapshot(results)
    /\ rbFail = FALSE
    /\ visited = <<>>
    /\ processed = <<>>
    /\ committed = {}
    /\ ReqInit
    /\ RevInit
    /\ SearchInit
    /\ LookupInit
    /\ EnvInit
    /\ DetectInit

Next ==
    \/ ExecStart
    \/ ExecBegin
    \/ Hop1
    \/ Hop2
    \/ FileStep
    \/ Mkdir
    \/ Move
    \/ Commit
    \/ RollbackStep
    \/ RollbackEnd
    \/ ExecReturn
    \/ ReviewXPost

Spec == Init /\ [][Next]_vars

\* the same call while another process creates an entry in the parent directory
NextRace ==
    \/ ExecStart
    \/ ExecBegin
    \/ Hop1
    \/ Hop2Check
    \/ Hop2Rename
    \/ Intrude
    \/ FileStep
    \/ Mkdir
    \/ Move
    \/ Commit
    \/ RollbackStep
    \/ RollbackEnd
    \/ ExecReturn
    \/ ReviewXPost

SpecRace == Init /\ [][NextRace]_vars

(***************************************************************************)
(* A sequence of catalog requests                                          *)
(***************************************************************************)
InitReq ==
    /\ results = <<>>
    /\ pc = "idle"
    /\ interactive = FALSE
    /\ dry_run = TRUE
    /\ TxnIdle
    /\ ReqInit
    /\ RevInit
    /\ SearchInit
    /\ LookupInit
    /\ EnvInit
    /\ DetectInit

NextReq ==
    \/ ReqCall
    \/ ReqSuccess
    \/ ReqRateLimited
    \/ ReqError
    \/ ReqOverflow
    \/ ReqReturn

SpecReq == InitReq /\ [][NextReq]_vars

(***************************************************************************)
(* main(): scan_all, then interactive_review or execute_renames            *)
(***************************************************************************)
InitReview ==
    /\ results = <<>>
    /\ pc = "scan"
    /\ interactive \in BOOLEAN
    /\ dry_run \in BOOLEAN
    /\ TxnIdle
    /\ ReqInit
    /\ RevInit
    /\ SearchInit
    /\ LookupInit
    /\ EnvInit
    /\ DetectInit

NextReview ==
    \/ ScanStep
    \/ ScanDone
    \/ RunExec
    \/ CmdQuit
    \/ CmdX
    \/ CmdEnter
    \/ CmdAll
    \/ CmdPick
    \/ ReviewSkip
    \/ ReviewCollection
    \/ ReviewDialog
    \/ ReviewEnd

SpecReview == InitReview /\ [][NextReview]_vars

(***************************************************************************)
(* One call of _search_tmdb                                                *)
(***************************************************************************)
InitSearch ==
    /\ results = <<>>
    /\ pc = "idle"
    /\ interactive = FALSE
    /\ dry_run = TRUE
    /\ TxnIdle
    /\ ReqInit
    /\ RevInit
    /\ SearchInit
    /\ LookupInit
    /\ EnvInit
    /\ DetectInit

NextSearch ==
    \/ SearchCall
    \/ SearchVariant
    \/ SearchItem
    \/ SearchItemsEnd
    \/ SearchReturn

SpecSearch == InitSearch /\ [][NextSearch]_vars

(***************************************************************************)
(* One 'm' choice of the review dialog                                     *)
(***************************************************************************)
InitLookup ==
    /\ results = <<>>
    /\ pc = "idle"
    /\ interactive = FALSE
    /\ dry_run = TRUE
    /\ TxnIdle
    /\ ReqInit
    /\ RevInit
    /\ SearchInit
    /\ LookupInit
    /\ EnvInit
    /\ DetectInit

NextLookup ==
    \/ LookupCall
    \/ LookupFind
    \/ LookupMovie
    \/ LookupTv
    \/ LookupImdbId
    \/ LookupReturn

SpecLookup == InitLookup /\ [][NextLookup]_vars

(***************************************************************************)
(* The detection of one folder                                             *)
(***************************************************************************)
InitDetect ==
    /\ results = <<>>
    /\ pc = "scan"
    /\ interactive = FALSE
    /\ dry_run = FALSE
    /\ TxnIdle
    /\ ReqInit
    /\ RevInit
    /\ SearchInit
    /\ LookupInit
    /\ EnvInit
    /\ DetectInit

NextDetect ==
    \/ DetectCall
    \/ DetectFind
    \/ DetectClassify
    \/ DetectItems

SpecDetect == InitDetect /\ [][NextDetect]_vars

(***************************************************************************)
(* Properties of the rename transaction                                    *)
(***************************************************************************)
\* the completed steps of a log, and the outcomes that were eligible at the call
CompletedOf(log) == SelectSeq(log, LAMBDA o : o.done)
EligibleAtCall ==
    SelectSeq([i \in 1..Len(results0) |-> i],
              LAMBDA i : results0[i].status \in {AUTO, MANUAL} /\ results0[i].selected)

\* C1: when a forward rename step of a folder transaction has failed and every
\* restore of the rollback has succeeded, the filesystem is what it was when the
\* transaction began.
C1_RollbackRestoresPaths ==
    (pc = "rollback" /\ rb = <<>> /\ ~rbFail /\ IsDir(fs0, <<Cur.path>>)) => fs = fs0

\* a child-file rename failed after both folder hops and one child rename, and
\* the rollback has restored all three
C1_Witness ==
    /\ pc = "rollback"
    /\ rb = <<>>
    /\ ~rbFail
    /\ IsDir(fs0, <<Cur.path>>)
    /\ Len(CompletedOf(ops)) = 3
    /\ Len(ops) = 4
    /\ fs = fs0

BadRename(f, src, dst) ==
    \/ ~Exists(f, src)
    \/ Exists(f, dst) /\ src # dst
    \/ StatDev(f, src) # StatDev(f, dst)
C5_PreconditionsReject ==
    [][/\ Len(ops') = Len(ops) + 1 =>
            LET op == ops'[Len(ops')]
            IN  BadRename(fs, op.old, op.new) =>
                    ~op.done /\ fs' = fs /\ pc' = "rollback"
       /\ ( /\ pc = "loop"
            /\ k <= Len(to_rename)
            /\ ~dry_run
            /\ results'[to_rename[k]].new_name # NoText
            /\ IsDir(fs, <<Cur.path>>)
            /\ StatDev(fs, <<Cur.path>>)
                  # StatDev(fs, <<results'[to_rename[k]].new_name>>) )
          => (ops' = <<>> /\ fs' = fs /\ err' = err + 1 /\ pc' = "loop")
      ]_vars

\* the first hop was rejected because the temporary name exists
C5_Witness ==
    /\ pc = "rollback"
    /\ Len(ops) = 1
    /\ ~ops[1].done
    /\ Exists(fs, ops[1].new)
    /\ fs = fs0

\* C6: a child whose new name is borne by an existing file is left alone and the
\* loop goes on; no step of the child loop changes the number of children; no two
\* logged steps have the same destination.
C6_ExistingNameSkipped ==
    [][pc = "files" =>
        /\ \A item \in todo \ todo' :
              LET nf == NewFn(Cur.new_name, item)
              IN  (nf # <<>> /\ nf[1] # item /\ nf[1] \in fs[working].kids)
                      => (fs' = fs /\ ops' = ops /\ pc' \in {"files", "commit"})
        /\ Cardinality(fs'[working].kids) = Cardinality(fs[working].kids)
        /\ \A i, j \in 1..Len(ops') : i # j => ops'[i].new # ops'[j].new
      ]_vars

\* of two children with the same new name one was renamed and the other left
C6_Witness ==
    /\ pc = "commit"
    /\ \E item \in fs[working].kids :
          LET nf == NewFn(Cur.new_name, item)
          IN  /\ nf # <<>>
              /\ nf[1] # item
              /\ \E i \in 1..Len(ops) : ops[i].done /\ ops[i].new = <<working, nf[1]>>

\* C7 as stated: every outcome eligible at the call is processed once, in order,
\* and ok + skip + err is the number of eligible outcomes.
C7_AsStated ==
    pc = "returned" =>
        /\ processed = EligibleAtCall
        /\ ok + skip + err = Len(EligibleAtCall)

\* C7, amended: as stated when at least one outcome is eligible; with none
\* eligible the call returns (0, len(results), 0).
C7_EveryEligibleProcessed ==
    pc = "returned" =>
        /\ processed = EligibleAtCall
        /\ EligibleAtCall # <<>> => ok + skip + err = Len(EligibleAtCall)
        /\ EligibleAtCall = <<>> => (ok = 0 /\ skip = Len(results) /\ err = 0)

\* the first eligible outcome failed and the second was still renamed
C7_Witness ==
    /\ pc = "returned"
    /\ ~dry_run
    /\ EligibleAtCall = <<1, 2>>
    /\ processed = <<1, 2>>
    /\ committed = {2}
    /\ err = 1
    /\ ok = 1

\* C8: the rollback goes through the completed steps of the log, and only those,
\* in the reverse of the order they were logged, and a failed restore does not
\* stop it.
C8_RollbackReverseOrder ==
    pc = "rollback" =>
        /\ [i \in 1..Len(visited) |-> visited[i].op] \o rb
              = Reverse(CompletedOf(ops))
        /\ \A i \in 1..Len(visited) : visited[i].op.done

\* a child was not restored, and both folder hops were restored after it
C8_Witness ==
    /\ pc = "rollback"
    /\ rb = <<>>
    /\ Len(visited) = 3
    /\ visited[1].how = "failed"
    /\ visited[2].how = "restored"
    /\ visited[3].how = "restored"
    /\ Len(visited[1].op.old) = 2

\* the folder names a step hands to the filesystem as the target of a rename or
\* of mkdir: the names that come to exist, and the target of the step logged
NewTargets ==
    {n \in TopNames : ~Exists(fs, <<n>>) /\ Exists(fs', <<n>>)}
        \cup (IF Len(ops') = Len(ops) + 1 /\ Len(ops'[Len(ops')].new) = 1
              THEN {ops'[Len(ops')].new[1]} ELSE {})
CleanOf(n, control) ==
    /\ n # <<>>
    /\ Len(n) <= MaxNameLen
    /\ \A i \in 1..Len(n) : n[i] \notin IllegalChars \cup control
    /\ n[1] \notin StripChars
    /\ n[Len(n)] \notin StripChars
\* an outcome whose name _sanitize refuses fails, and nothing is done on disk
UnsanitizableFails ==
    (/\ pc = "loop"
     /\ k <= Len(to_rename)
     /\ Cur.sel # <<>>
     /\ IsImdbId(Cur.sel[1].imdb_id)
     /\ SanitizeRaises(RawName(Cur.sel[1])))
        => /\ fs' = fs
           /\ ops' = <<>>
           /\ err' = err + 1
           /\ pc' = "loop"
           /\ results'[to_rename[k]].new_name = NoText
           /\ results'[to_rename[k]].status = Cur.status

\* C17 as stated: every folder name execute_renames uses as the target of a
\* filesystem call is what _sanitize returns for the selected match, with none of
\* <>:"/\|?*, no control character, no dot or space at either end, not empty and
\* of at most 200 characters; a name _sanitize refuses fails the outcome with no
\* filesystem call.
C17_AsStated ==
    [][pc # "rollback" =>
        /\ \A n \in NewTargets :
            /\ n = SanitizeText(RawName(Cur.sel[1]))
            /\ CleanOf(n, ControlChars \cup {Del})
        /\ UnsanitizableFails]_vars

\* C17: the same of every target but the temporary sibling .tmp_<ms>_<id> of the
\* two-hop folder rename, which is not sanitized, and with "control character"
\* read as the range \x00-\x1f that _sanitize removes.
C17_SanitizedTargets ==
    [][pc # "rollback" =>
        /\ \A n \in NewTargets :
            \/ /\ pc = "hop1"
               /\ n = temp
               /\ \E t \in Clock : n = TmpName(t, Cur.sel[1].tmdb_id)
            \/ /\ n = Cur.new_name
               /\ n = SanitizeText(RawName(Cur.sel[1]))
               /\ CleanOf(n, ControlChars)
        /\ UnsanitizableFails]_vars
C17_Witness ==
    /\ Len(results) = 2
    /\ results[1].sel = <<MatchLong>>
    /\ processed = <<1, 2>>
    /\ err = 1
    /\ ~Exists(fs0, <<TargetB>>)
    /\ Exists(fs, <<TargetB>>)
    /\ TargetB # RawName([MatchB EXCEPT !.imdb_id = ImdbOther])

\* the parent directory with the empty folder t added, and with the file p moved
\* into it under the name of the folder and its own extension
WithFolder(f, t) == [f EXCEPT ![t] = Dir(ParentDev, {})]
WithFileMoved(f, p, t) ==
    [f EXCEPT ![p] = Absent, ![t] = Dir(ParentDev, {Kid(t, "", PathSuffix(p))})]
LastProcessed == results[processed[Len(processed)]]

\* C20: the transaction of an outcome whose path is a lone file.  With the target
\* folder already there it fails and the filesystem is as it was; otherwise the
\* folder is created and the file is moved to {target}/{target}{ext}; when the
\* move fails the file is still at its path and the empty folder just created is
\* the only change (no change at all when mkdir itself raised).
C20_LoneFileTransaction ==
    /\ (pc \in {"move", "commit", "rollback"} /\ IsFile(fs0, <<Cur.path>>)) =>
        /\ ~Exists(fs0, <<Cur.new_name>>)
        /\ pc = "move" => fs = WithFolder(fs0, Cur.new_name)
        /\ pc = "commit" => fs = WithFileMoved(fs0, Cur.path, Cur.new_name)
        /\ pc = "rollback" =>
            /\ fs = WithFolder(fs0, Cur.new_name)
            /\ IsFile(fs, <<Cur.path>>)
    /\ (/\ pc = "loop"
        /\ processed # <<>>
        /\ ~dry_run
        /\ LastProcessed.new_name # NoText
        /\ IsFile(fs0, <<LastProcessed.path>>)) =>
        LET r == LastProcessed
        IN  IF Exists(fs0, <<r.new_name>>)
            THEN fs = fs0 /\ r.status # RENAMED /\ err > 0
            ELSE IF r.status = RENAMED
            THEN fs = WithFileMoved(fs0, r.path, r.new_name)
            ELSE /\ fs \in {fs0, WithFolder(fs0, r.new_name)}
                 /\ IsFile(fs, <<r.path>>)
                 /\ err > 0
C20_Witness ==
    /\ pc = "loop"
    /\ processed # <<>>
    /\ ~dry_run
    /\ LastProcessed.path = NmF
    /\ LastProcessed.new_name = TargetB
    /\ LastProcessed.status # RENAMED
    /\ IsFile(fs, <<NmF>>)
    /\ fs # fs0
    /\ fs = WithFolder(fs0, TargetB)

\* the filesystem a transaction's renames start from (after the mkdir of the
\* lone-file branch, which is no rename and is not logged), and the filesystem
\* after the renames of a log, applied in the order of the log
RenameBase == IF IsDir(fs0, <<Cur.path>>) THEN fs0 ELSE WithFolder(fs0, Cur.new_name)
RECURSIVE Replay(_, _)
Replay(f, log) ==
    IF log = <<>> THEN f
    ELSE Replay(OsRenameApply(f, Head(log).old, Head(log).new), Tail(log))

\* C21: while a transaction goes forward every entry of the step log is completed
\* and the filesystem is the one its entries lead to, applied in log order; when
\* a rename has failed and the rollback is about to start, the failed step is the
\* last entry, it is the only one not completed, and the filesystem is still the
\* one the completed entries lead to.
C21_CompletedAreEffective ==
    /\ pc \in {"hop1", "hop2", "files", "move", "commit"} =>
        /\ \A i \in 1..Len(ops) : ops[i].done
        /\ fs = Replay(RenameBase, ops)
    /\ (pc = "rollback" /\ visited = <<>>) =>
        /\ ops # <<>>
        /\ \A i \in 1..Len(ops) : ops[i].done <=> i < Len(ops)
        /\ fs = Replay(RenameBase, CompletedOf(ops))
C21_Witness ==
    /\ pc = "rollback"
    /\ visited = <<>>
    /\ Len(ops) = 3
    /\ ops[1].new = <<temp>>
    /\ ops[2].old = <<temp>>
    /\ ~ops[3].done
    /\ fs # fs0

\* C22: the step log is empty between transactions: before execute_renames is
\* called, when the transaction of each folder begins, after each of its ends
\* (commit, rollback, the early `continue`s, dry run) and when execute_renames has
\* returned; and within a transaction every step in the log is a step on the
\* folder of that transaction: on its path, its temporary name or its new name.
C22_LogOfOneTransaction ==
    /\ pc \in {"idle", "loop", "returned"} => ops = <<>>
    /\ pc \in {"hop1", "hop2", "files", "mkdir", "move", "commit", "rollback"} =>
        \A i \in 1..Len(ops) :
            /\ ops[i].old[1] \in {Cur.path, temp, Cur.new_name}
            /\ ops[i].new[1] \in {Cur.path, temp, Cur.new_name}
C22_Witness ==
    /\ pc = "commit"
    /\ Len(ops) = 1
    /\ processed = <<1>>
    /\ committed = {1}
    /\ results[1].path = NmA
    /\ IsDir(fs, <<TargetA>>)
    /\ Cur.path = NmF

\* the steps of the log that rename the folder itself, as pairs (old, new)
FolderSteps ==
    LET top == SelectSeq(ops, LAMBDA o : Len(o.old) = 1)
    IN  [i \in 1..Len(top) |-> <<top[i].old, top[i].new>>]

\* C23: in the transaction of a folder whose name is its target name already no
\* step renames the folder, and the child files are gone through in the folder
\* under its own path.  Otherwise the folder goes to its target in two steps,
\* first to a sibling named .tmp_..., then from there to the target, in this
\* order and with no other folder step; between the two the folder is under the
\* temporary name only, and the child files are gone through under the target.
C23_TwoHops ==
    (pc \in {"hop1", "hop2", "files", "commit", "rollback"} /\ IsDir(fs0, <<Cur.path>>)) =>
        LET p == Cur.path
            t == Cur.new_name
            hops == <<<< <<p>>, <<temp>> >>, << <<temp>>, <<t>> >>>>
        IN  IF p = t
            THEN /\ FolderSteps = <<>>
                 /\ pc \in {"files", "commit", "rollback"}
                 /\ working = p
                 /\ IsDir(fs, <<p>>)
            ELSE /\ SubSeq(temp, 1, 5) = <<".", "t", "m", "p", "_">>
                 /\ Len(FolderSteps) <= 2
                 /\ FolderSteps = SubSeq(hops, 1, Len(FolderSteps))
                 /\ pc = "hop1" => ops = <<>>
                 /\ pc = "hop2" =>
                    /\ ops = <<RenameOp(<<p>>, <<temp>>, TRUE)>>
                    /\ fs = [fs0 EXCEPT ![p] = Absent, ![temp] = fs0[p]]
                    /\ ~Exists(fs, <<p>>)
                    /\ ~Exists(fs, <<t>>)
                 /\ pc \in {"files", "commit"} =>
                    /\ Len(ops) >= 2
                    /\ ops[1].done /\ ops[2].done
                    /\ FolderSteps = hops
                    /\ working = t
                    /\ IsDir(fs, <<t>>)
                    /\ ~Exists(fs, <<p>>)
                    /\ ~Exists(fs, <<temp>>)
C23_Witness ==
    /\ pc = "files"
    /\ IsDir(fs0, <<Cur.path>>)
    /\ Cur.path # Cur.new_name
    /\ Len(ops) = 3
    /\ Len(FolderSteps) = 2

\* C24: an entry another process creates at the target path between the
\* transaction's check of the target and the second hop is never replaced: it
\* stays as it was created, the transaction is not committed, and when the
\* rollback has restored what it went through, the filesystem is the one the
\* transaction began on with that entry added, the folder under its own name.
C24_NoClobber ==
    alien # <<>> =>
        LET a == alien[1]
        IN  /\ fs[a.name] = a.entry
            /\ a.idx \notin committed
            /\ (/\ pc = "loop"
                /\ processed # <<>>
                /\ processed[Len(processed)] = a.idx
                /\ ~rbFail) =>
                    /\ fs = [fs0 EXCEPT ![a.name] = a.entry]
                    /\ IsDir(fs, <<results[a.idx].path>>)
                    /\ results[a.idx].status # RENAMED
                    /\ err > 0

\* C25: no step is in the log of a transaction twice, and a step that failed is
\* the last one of its transaction: from then on the log gets no new step, and
\* until the transaction is over the filesystem changes only by the rollback
\* restoring a completed step.
C25_NoForwardStepAfterFailure ==
    [][/\ \A i, j \in 1..Len(ops) :
            (ops[i].old = ops[j].old /\ ops[i].new = ops[j].new) => i = j
       /\ \A i \in 1..Len(ops) : ~ops[i].done => (i = Len(ops) /\ pc = "rollback")
       /\ pc = "rollback" =>
            /\ pc' \in {"rollback", "loop"}
            /\ ops' = ops \/ (ops' = <<>> /\ pc' = "loop")
            /\ todo' = todo
            /\ fs' # fs =>
                /\ rb # <<>>
                /\ Head(rb).done
                /\ fs' = OsRenameApply(fs, Head(rb).new, Head(rb).old)]_vars
C25_Witness ==
    /\ pc = "rollback"
    /\ rb = <<>>
    /\ Len(ops) = 3
    /\ ~ops[3].done
    /\ todo # {}
    /\ Len(visited) = 2
    /\ fs = fs0

(***************************************************************************)
(* Properties of the catalog request                                       *)
(***************************************************************************)
\* C4: one call of _tmdb_request makes at most two network attempts.
C4_AtMostTwoAttempts == attempts <= 2

\* C16: the cache is keyed by the whole request.  A request that was fetched
\* before is answered with the data of that fetch and with no network attempt, so
\* no request is fetched twice; a call is answered without network only from a
\* fetch of the very same endpoint and parameters, and two requests that differ
\* never have the same key.
C16_CachedPerRequest ==
    /\ \A r \in Requests : Len(fetches[r]) <= 1
    /\ \A r \in Requests :
        cache[UrlOf(r.endpoint, r.params)]
            = IF fetches[r] = <<>> THEN NoData ELSE fetches[r][1]
    /\ (reqPc = "done" /\ known) => (attempts = 0 /\ reqOut = fetches[reqArgs][1])
    /\ (reqPc = "done" /\ attempts = 0 /\ reqOut # NoData) =>
            (known /\ reqOut = fetches[reqArgs][1])
    /\ \A r1, r2 \in Requests :
        r1 # r2 => UrlOf(r1.endpoint, r1.params) # UrlOf(r2.endpoint, r2.params)
C16_Witness ==
    /\ reqPc = "done"
    /\ known
    /\ attempts = 0
    /\ \E r \in Requests :
        /\ r.endpoint = reqArgs.endpoint
        /\ r.params # reqArgs.params
        /\ fetches[r] # <<>>
        /\ fetches[r][1] # reqOut

(***************************************************************************)
(* Properties of the scan and the review                                   *)
(***************************************************************************)
\* C3 as stated: an outcome has a selected match if and only if its status is
\* automatic or manual.
C3_AsStated ==
    \A i \in 1..Len(results) :
        (results[i].sel # <<>>) <=> (results[i].status \in {AUTO, MANUAL})

\* C3, amended: an automatic outcome has a selected match, and so has a manual
\* outcome unless it is a collection; an outcome with a selected match is
\* automatic, manual, skipped or renamed, for a skip and a rename keep the
\* selection.
C3_SelectionAndStatus ==
    \A i \in 1..Len(results) :
        LET r == results[i]
        IN  /\ r.status = AUTO => r.sel # <<>>
            /\ (r.status = MANUAL /\ ~r.coll) => r.sel # <<>>
            /\ r.sel # <<>> => r.status \in {AUTO, MANUAL, SKIP, RENAMED}

\* one outcome was skipped after its match had been selected, another was renamed
C3_Witness ==
    /\ cmds = 2
    /\ \E i, j \in 1..Len(results) :
          /\ results[i].status = SKIP
          /\ results[i].sel # <<>>
          /\ results[j].status = RENAMED
          /\ results[j].sel # <<>>

\* C9 as stated: an outcome that is skipped, done already or renamed never
\* changes status or selected match afterwards.
C9_AsStated ==
    [][\A i \in 1..Len(results) :
          results[i].status \in {SKIP, DONE, RENAMED} =>
              /\ i <= Len(results')
              /\ results'[i].status = results[i].status
              /\ results'[i].sel = results[i].sel
      ]_vars

\* C9, amended: an outcome that is done already or renamed never changes status
\* or selected match afterwards; a skipped outcome is left as it is by Enter, by
\* 'x' and by execute_renames, and a skipped collection by every command.
C9_DoneAndRenamedTerminal ==
    [][\A i \in 1..Len(results) :
          LET r == results[i]
          IN  (\/ r.status \in {DONE, RENAMED}
               \/ r.status = SKIP /\ (cmd' \notin {"a", "pick"} \/ r.coll))
                  => /\ i <= Len(results')
                     /\ results'[i].status = r.status
                     /\ results'[i].sel = r.sel
      ]_vars

\* after a rename, 'a' has gone through every outcome and left the one that is
\* done already and the renamed one as they were
C9_Witness ==
    /\ pc = "review"
    /\ cmd = "a"
    /\ queue = <<>>
    /\ cmds = 2
    /\ \E i, j \in 1..Len(results) :
          results[i].status = DONE /\ results[j].status = RENAMED

\* C10: a folder that is not a collection, has a video and a title is classified
\* from the rank result: no candidate, none; one candidate whose year is the
\* extracted year, automatic with that candidate selected; anything else,
\* uncertain with no selection.
C10_ClassifiedFromRank ==
    pc = "scan" =>
        \A i \in 1..Len(results) :
            LET d == scanned[i]
                r == results[i]
                single == /\ Len(d.rank) = 1
                          /\ d.year # NoText
                          /\ d.rank[1].year = d.year
            IN  (~d.canon /\ d.type # COLLECTION /\ d.videos # <<>> /\ d.title) =>
                    /\ r.matches = d.rank
                    /\ d.rank = <<>> => (r.status = NONE /\ r.sel = <<>>)
                    /\ single => (r.status = AUTO /\ r.sel = <<d.rank[1]>>)
                    /\ (d.rank # <<>> /\ ~single) => (r.status = UNSURE /\ r.sel = <<>>)

\* a lone candidate without a year for a folder without a year is uncertain, and
\* a lone candidate of the extracted year is automatic
C10_Witness ==
    /\ pc = "scan"
    /\ Len(results) = 2
    /\ Len(scanned[1].rank) = 1
    /\ scanned[1].year = NoText
    /\ results[1].status = UNSURE
    /\ results[2].status = AUTO
    /\ results[2].sel = <<MatchA>>

\* C11: a folder whose name has the canonical shape is done already, and its scan
\* has walked no directory, asked the catalog nothing, and set neither a selected
\* match nor a new name.
C11_CanonicalUntouched ==
    pc = "scan" =>
        \A i \in 1..Len(results) :
            scanned[i].canon =>
                /\ results[i].status = DONE
                /\ calls[i] = <<>>
                /\ results[i].sel = <<>>
                /\ results[i].new_name = NoText
                /\ results[i].matches = <<>>

\* a folder that was searched, then a canonical folder
C11_Witness ==
    /\ pc = "scan"
    /\ Len(results) = 2
    /\ calls[1] = <<"_detect_type", "_extract_title_year", "_search_tmdb">>
    /\ scanned[2].canon
    /\ results[2].status = DONE
    /\ calls[2] = <<>>

(***************************************************************************)
(* Properties of the search                                                *)
(***************************************************************************)
\* the searches of the log, and the items the catalog has sent, in order
Searches == SelectSeq(sLog, LAMBDA e : e.kind = "search")
RECURSIVE ItemsOf(_)
ItemsOf(log) ==
    IF log = <<>> THEN <<>>
    ELSE (IF Head(log).kind = "search" /\ Head(log).resp.ok /\ Head(log).resp.has
          THEN Head(log).resp.results ELSE <<>>) \o ItemsOf(Tail(log))
FirstWithId(its, id) == its[CHOOSE i \in 1..Len(its) :
                                its[i].id = id /\ \A j \in 1..(i - 1) : its[j].id # id]

\* C12: the list returned holds no identifier twice, and every record in it was
\* built from the first item the catalog sent with that identifier.
C12_FirstOccurrenceKept ==
    sPc = "done" =>
        /\ \A i, j \in 1..Len(sOut) : i # j => sOut[i].tmdb_id # sOut[j].tmdb_id
        /\ \A i \in 1..Len(sOut) :
              LET first == FirstWithId(ItemsOf(sLog), sOut[i].tmdb_id)
              IN  /\ sOut[i].year = first.year
                  /\ sOut[i].popularity = first.popularity

\* two variants returned identifier 2, and the second sent identifier 1 twice
C12_Witness ==
    /\ sPc = "done"
    /\ Len(Searches) = 2
    /\ Searches[1].resp = RespTwo
    /\ Searches[2].resp = RespDup
    /\ Len(sOut) = 2
    /\ \E i \in 1..Len(sOut) : sOut[i].tmdb_id = 2 /\ sOut[i].popularity = 3
    /\ \E i \in 1..Len(sOut) : sOut[i].tmdb_id = 1 /\ sOut[i].popularity = 1

\* a comes no later than b in the order of the list returned
Precedes(a, b, year) ==
    IF year # NoText /\ (a.year = year) # (b.year = year)
    THEN a.year = year
    ELSE a.popularity >= b.popularity

\* C13: the list returned has at most 10 entries; with a year, the candidates of
\* that year come first, and each group is in non-increasing popularity; without
\* one, the list is in non-increasing popularity; and the entries kept are the
\* first 10 of all the accumulated candidates in that order.
C13_RankedAndCapped ==
    sPc = "done" =>
        /\ Len(sOut) <= 10
        /\ Len(sOut) = IF Len(sResults) < 10 THEN Len(sResults) ELSE 10
        /\ \A i, j \in 1..Len(sOut) : i < j => Precedes(sOut[i], sOut[j], sYear)
        /\ \A i \in 1..Len(sOut) : \E j \in 1..Len(sResults) : sResults[j] = sOut[i]
        /\ \A j \in 1..Len(sResults) :
              (\A i \in 1..Len(sOut) : sOut[i] # sResults[j])
                  => \A i \in 1..Len(sOut) : Precedes(sOut[i], sResults[j], sYear)

\* fourteen candidates for a search with a year, ten of them returned
C13_Witness ==
    /\ sPc = "done"
    /\ sYear = Year1999
    /\ Len(sResults) = 14
    /\ Len(sOut) = 10
    /\ sOut[1].year = Year1999
    /\ sOut[10].year # Year1999

\* C18: whichever requests yield no data, the search does not raise; the
\* candidates of the searches that were answered are all accumulated and ranked,
\* a candidate whose identifier lookup yields no data is kept without one, and
\* when every search yields no data the list is empty and the status is none.
C18_NoDataTolerated ==
    /\ sPc # "raised"
    /\ sPc = "done" =>
        /\ {sResults[i].tmdb_id : i \in 1..Len(sResults)}
              = {ItemsOf(sLog)[i].id : i \in 1..Len(ItemsOf(sLog))} \ {0}
        /\ \A e \in {sLog[i] : i \in 1..Len(sLog)} :
              (e.kind = "external_ids" /\ e.ans = NoText) =>
                  \E i \in 1..Len(sResults) :
                      sResults[i].tmdb_id = e.id /\ sResults[i].imdb_id = NoText
        /\ (\A i \in 1..Len(Searches) : ~(Searches[i].resp.ok /\ Searches[i].resp.has))
              => (sOut = <<>> /\ Classify(sOut, sYear).status = NONE)

\* the first search yielded no data, the second was answered, and an identifier
\* lookup yielded no data
C18_Witness ==
    /\ sPc = "done"
    /\ Len(Searches) = 2
    /\ Searches[1].resp = RespNoData
    /\ Searches[2].resp = RespTwo
    /\ Len(sOut) = 2
    /\ \E i \in 1..Len(sOut) : sOut[i].imdb_id = NoText
    /\ \E i \in 1..Len(sOut) : sOut[i].imdb_id # NoText

\* the identifiers a log has accumulated: those of its items that are not
\* missing, each once, in the order the catalog sent them
CandidateIds(log) ==
    LET its == ItemsOf(log)
        first == SelectSeq([i \in 1..Len(its) |-> i],
                           LAMBDA i : its[i].id # 0 /\ \A j \in 1..(i - 1) : its[j].id # its[i].id)
    IN  [i \in 1..Len(first) |-> its[first[i]].id]
\* the positions of the log that hold a search
SearchAt == {n \in 1..Len(sLog) : sLog[n].kind = "search"}

\* C26: the searches of one call are, in order, the first variants of the
\* de-duplicated variant list, which starts with the exact title and the year
\* given; no variant is searched twice; and a search is issued only when the
\* searches before it have accumulated fewer than 8 distinct candidates.
C26_SearchesFollowVariants ==
    sPc # "idle" =>
        LET gen == GenerateSearchVariants(sTitle, sYear)
        IN  /\ gen[1] = Variant(sTitle, sYear)
            /\ Len(Searches) <= Len(gen)
            /\ \A i \in 1..Len(Searches) :
                  Variant(Searches[i].query, Searches[i].yr) = gen[i]
            /\ \A i, j \in 1..Len(Searches) :
                  i # j => Variant(Searches[i].query, Searches[i].yr)
                               # Variant(Searches[j].query, Searches[j].yr)
            /\ \A n \in SearchAt :
                  Len(CandidateIds(SubSeq(sLog, 1, n - 1))) < EnoughResults

\* the second search brought more than 8 candidates, and the two variants left
\* were never searched
C26_Witness ==
    /\ sPc = "done"
    /\ sTitle = <<"A", "and", "B">>
    /\ sYear = Year1999
    /\ Len(GenerateSearchVariants(sTitle, sYear)) = 4
    /\ Len(Searches) = 2
    /\ Searches[1].resp = RespTwo
    /\ Searches[2].resp = RespMany
    /\ Searches[2].yr = NoText
    /\ Len(sResults) = 14

\* the identifier lookups of the log
Lookups == SelectSeq(sLog, LAMBDA e : e.kind = "external_ids")
Min(a, b) == IF a < b THEN a ELSE b

\* C27: one call looks up at most 3 external identifiers, those of the first 3
\* distinct candidates accumulated, each once; every later candidate is kept,
\* and returned, without an external identifier; a duplicate is never looked up.
C27_ThreeLookups ==
    LET ids == CandidateIds(sLog)
    IN  /\ Len(Lookups) <= IdLookups
        /\ Len(Lookups) = Min(Len(sResults), IdLookups)
        /\ \A i \in 1..Len(Lookups) :
              Lookups[i].id = ids[i] /\ sResults[i].tmdb_id = ids[i]
        /\ \A i, j \in 1..Len(Lookups) : i # j => Lookups[i].id # Lookups[j].id
        /\ \A i \in 1..Len(sResults) : i > IdLookups => sResults[i].imdb_id = NoText
        /\ sPc = "done" =>
              \A i \in 1..Len(sOut) :
                  (\A j \in 1..Min(Len(ids), IdLookups) : sOut[i].tmdb_id # ids[j])
                      => sOut[i].imdb_id = NoText

\* the catalog sent identifier 1 twice among the first candidates and more than
\* three candidates in all; the three lookups all gave an identifier
C27_Witness ==
    /\ sPc = "done"
    /\ Len(Searches) = 2
    /\ Searches[1].resp = RespDup
    /\ Searches[2].resp = RespMany
    /\ Len(Lookups) = 3
    /\ <<Lookups[1].id, Lookups[2].id, Lookups[3].id>> = <<2, 1, 3>>
    /\ \A i \in 1..3 : sResults[i].imdb_id # NoText
    /\ Len(sResults) = 14
    /\ \E i \in 1..Len(sOut) : sOut[i].tmdb_id > 3 /\ sOut[i].imdb_id = NoText

\* C28: right after the scan, every item of a collection folder has the status
\* and the selection that the folder rule gives for its own rank result and its
\* own extracted year: none for no candidate (a video without a title has none),
\* automatic with the candidate selected for a single candidate of that year,
\* uncertain without a selection otherwise.
C28_ItemsClassifiedAsFolders ==
    pc = "scan" =>
        \A f \in 1..Len(scanned) :
            (~scanned[f].canon /\ scanned[f].videos # <<>> /\ scanned[f].type = COLLECTION)
                => LET its == items[Folders[f]]
                       videos == scanned[f].videos
                   IN  /\ Len(its) = Len(videos)
                       /\ \A j \in 1..Len(its) :
                             LET rank == IF videos[j].title THEN videos[j].rank ELSE <<>>
                                 c == Classify(rank, videos[j].year)
                             IN  /\ its[j].matches = rank
                                 /\ its[j].status = c.status
                                 /\ its[j].sel = c.sel

\* C19: an outcome that is a collection never has a selected match of its own,
\* whatever was scanned and whatever review commands and collection choices were
\* given; the selections are on its items and on the outcomes made of them.
C19_CollectionHasNoSelection ==
    \A i \in 1..Len(results) : results[i].coll => results[i].sel = <<>>
C19_Witness ==
    \E i \in 1..Len(results) :
        /\ results[i].coll
        /\ results[i].status = SKIP
        /\ \E j \in 1..Len(items[results[i].path]) :
            LET it == items[results[i].path][j]
            IN  /\ it.sel # <<>>
                /\ it.status = MANUAL
                /\ \E n \in 1..Len(results) :
                    /\ ~results[n].coll
                    /\ results[n].path = it.path
                    /\ results[n].sel = it.sel

(***************************************************************************)
(* Properties of the manual lookup                                         *)
(***************************************************************************)
LookupOver == mPc \in {"done", "reviewed", "raised"}

\* C14: a typed text that is neither 'tt' followed by 7 or 8 digits nor a number
\* ends _manual_lookup with no match returned and no catalog request made, and
\* the outcome under review keeps the selected match it had
C14_RejectedWithoutRequest ==
    (LookupOver /\ ~IsXref(mInput) /\ ~IntParses(mInput)) =>
        /\ mOut[1].res = "None"
        /\ mLog = <<>>
        /\ Len(mRes) = 2 => mRes[2].sel = mRes[1].sel

\* C15: a typed text of decimal digits only, whatever its length, is resolved by
\* fetching the movie of that number first and the series only when the movie
\* fetch gave nothing; no other kind of request comes before, and no match is
\* returned only when both fetches gave nothing
C15_DigitsFetchedDirectly ==
    (LookupOver /\ IntParses(mInput)) =>
        /\ mLog # <<>>
        /\ mLog[1].kind = "movie"
        /\ mLog[1].id = IntOf(mInput)
        /\ \A i \in 1..Len(mLog) :
            /\ mLog[i].kind \in {"movie", "tv", "external_ids"}
            /\ mLog[i].kind = "tv" => (i = 2 /\ mLog[1].ans # "data")
        /\ mOut[1].res = "None" =>
            /\ Len(mLog) = 2
            /\ mLog[2].kind = "tv"
            /\ mLog[1].ans # "data"
            /\ mLog[2].ans # "data"

(***************************************************************************)
(* Properties of the detection                                             *)
(***************************************************************************)
\* the largest of the videos the walk met, the first the walk met among equals
Largest(found) ==
    found[CHOOSE i \in 1..Len(found) :
             \A j \in 1..Len(found) :
                 \/ found[j].size_gb < found[i].size_gb
                 \/ found[j].size_gb = found[i].size_gb /\ j >= i]
Episodes(found) == {i \in 1..Len(found) : found[i].episode}
Detected == dPc = "done" /\ ~dFolder.canon /\ dType # COLLECTION

\* C29 as stated: the type of a folder that is neither canonical nor a
\* collection is series with 2 episodes or more; else movie if the largest video
\* of the folder is a movie over 1 GiB; else series if the name has a season or
\* series cue; else the type of the largest video, unknown without videos.
C29_AsStated ==
    Detected =>
        dType = IF Cardinality(Episodes(dFound)) >= 2 THEN SERIES
                ELSE IF /\ dFound # <<>>
                        /\ ~Largest(dFound).episode
                        /\ Largest(dFound).size_gb > 1 THEN MOVIE
                ELSE IF dFolder.cue THEN SERIES
                ELSE IF dFound # <<>> THEN MediaTypeOf(Largest(dFound))
                ELSE UNKNOWN

\* C29: the type of a folder that is neither canonical nor a collection is
\* unknown without videos; else series with 2 episodes or more; else movie if
\* the largest of the videos that are no episodes is over 1 GiB, whether or not an
\* episode is larger still; else series if the name has a season or series cue;
\* else the type of the largest video.
C29_DetectPriority ==
    Detected =>
        dType = IF dFound = <<>> THEN UNKNOWN
                ELSE IF Cardinality(Episodes(dFound)) >= 2 THEN SERIES
                ELSE IF \E i \in 1..Len(dFound) :
                            ~dFound[i].episode /\ dFound[i].size_gb > 1 THEN MOVIE
                ELSE IF dFolder.cue THEN SERIES
                ELSE MediaTypeOf(Largest(dFound))

\* an episode of 3 GiB beside a movie of 2 GiB with the same title: a movie
C29_Witness ==
    /\ Detected
    /\ ~dFolder.cue
    /\ Len(dFound) = 2
    /\ Largest(dFound).episode
    /\ Largest(dFound).size_gb = 3
    /\ \E i \in 1..2 : ~dFound[i].episode /\ dFound[i].size_gb = 2
    /\ dType = MOVIE

\* what _is_collection looks at, told of the videos the walk met
CollectionSigns(name, found) ==
    \/ name.phrase
    \/ /\ Len(found) >= 2
       /\ \/ \E i, j \in 1..Len(found) :
                /\ found[i].year # NoText
                /\ found[j].year # NoText
                /\ found[i].year # found[j].year
          \/ \E i, j \in 1..Len(found) :
                /\ found[i].title # NoText
                /\ found[j].title # NoText
                /\ found[i].title # found[j].title
          \/ \E i, j \in 1..Len(found) :
                /\ i # j
                /\ found[i].size_gb > 1 /\ ~found[i].episode
                /\ found[j].size_gb > 1 /\ ~found[j].episode

\* C30 as stated: a folder is a collection exactly when its name has a
\* collection phrase, or it holds 2 videos or more with 2 distinct years, 2
\* distinct titles, or 2 videos over 1 GiB that are no episodes; and a collection
\* has one item for each video.
C30_AsStated ==
    dPc = "done" =>
        /\ dType = COLLECTION <=> CollectionSigns(dFolder, dFound)
        /\ dType = COLLECTION => Len(dItems) = Len(dFound)

\* C30: a folder is a collection exactly when its name is not canonical, it
\* holds a video, and its name has a collection phrase or it holds 2 videos or
\* more with 2 distinct years, 2 distinct titles, or 2 videos over 1 GiB that are
\* no episodes; and a collection has one item for each video.
C30_CollectionExactly ==
    dPc = "done" =>
        /\ dType = COLLECTION <=>
              /\ ~dFolder.canon
              /\ dFound # <<>>
              /\ CollectionSigns(dFolder, dFound)
        /\ dType = COLLECTION => Len(dItems) = Len(dFound)

\* two small videos of one title, of 1977 and of 1980, in a folder whose name
\* has no collection phrase: a collection of two items
C30_Witness ==
    /\ dPc = "done"
    /\ ~dFolder.phrase
    /\ Len(dFound) = 2
    /\ dFound[1].year = Year1977 /\ dFound[2].year = Year1980
    /\ dFound[1].title = dFound[2].title
    /\ dFound[1].size_gb = 1 /\ dFound[2].size_gb = 1
    /\ dType = COLLECTION
    /\ Len(dItems) = 2

(***************************************************************************)
(* Properties of a run as a whole                                          *)
(***************************************************************************)
\* the same candidate is selected, whether or not its external identifier has
\* been filled in since
SameCandidate(before, after) ==
    /\ (before = <<>>) <=> (after = <<>>)
    /\ before # <<>> =>
          /\ [after[1] EXCEPT !.imdb_id = NoText] = [before[1] EXCEPT !.imdb_id = NoText]
          /\ before[1].imdb_id # NoText => after[1].imdb_id = before[1].imdb_id
\* the step ends the iteration of the outcome picked
EndsIteration == Len(processed') = Len(processed) + 1

\* C31 as stated: in a dry run no step changes the filesystem, the step log, or
\* the status or the selected match of an outcome, and every outcome picked is
\* counted as ok.
C31_AsStated ==
    [][dry_run =>
          /\ fs' = fs
          /\ ops' = <<>>
          /\ \A i \in 1..Len(results) :
                /\ results'[i].status = results[i].status
                /\ results'[i].sel = results[i].sel
          /\ EndsIteration => (ok' = ok + 1 /\ err' = err)]_vars

\* C31: in a dry run no step changes the filesystem, the step log, the status of
\* an outcome or the candidate it has selected; the selected candidate's
\* external identifier is filled in when it was unresolved; an outcome picked
\* stays automatic or manual, and it is counted as ok when its identifier is
\* valid and its name can be sanitized, and as an error otherwise.
C31_DryRunFrame ==
    [][dry_run =>
          /\ fs' = fs
          /\ ops' = <<>>
          /\ Len(results') = Len(results)
          /\ \A i \in 1..Len(results) :
                /\ results'[i].status = results[i].status
                /\ SameCandidate(results[i].sel, results'[i].sel)
          /\ EndsIteration =>
                LET r == results'[to_rename[k]]
                    valid == /\ r.sel[1].imdb_id # NoText
                             /\ IsImdbId(r.sel[1].imdb_id)
                             /\ ~SanitizeRaises(RawName(r.sel[1]))
                IN  /\ r.status \in {AUTO, MANUAL}
                    /\ skip' = skip
                    /\ IF valid THEN ok' = ok + 1 /\ err' = err
                                ELSE ok' = ok /\ err' = err + 1]_vars

\* the 'x' command of a dry run is over: two outcomes were picked and both are
\* counted as ok, one of them with the identifier that was fetched for it;
\* nothing has changed on disk and the automatic outcome is still automatic
C31_Witness ==
    /\ dry_run
    /\ interactive
    /\ pc = "menu"
    /\ processed = <<1, 2>>
    /\ ok = 2
    /\ results[1].status = AUTO
    /\ results[2].status = MANUAL
    /\ results[2].sel[1].imdb_id # NoText
    /\ results[2].sel[1].tmdb_id = MatchB.tmdb_id
    /\ IsDir(fs, <<NmA>>)
    /\ ~Exists(fs, <<TargetA>>)

\* C32: a step changes the filesystem only within the transaction of an outcome
\* that was automatic or manual with a selected match when execute_renames was
\* called, is no collection, and whose match has an external identifier of the
\* form tt and 7 digits or more; and the step leaves alone the path of every
\* outcome that was uncertain, none, skip, done, renamed or a collection at the
\* call, unless an outcome that qualifies has the same path.
C32_OnlyQualifiedMutated ==
    [][fs' # fs =>
          /\ k <= Len(to_rename)
          /\ LET i == to_rename[k]
             IN  /\ results0[i].status \in {AUTO, MANUAL}
                 /\ results0[i].selected
                 /\ ~results[i].coll
                 /\ results[i].sel # <<>>
                 /\ results[i].sel[1].imdb_id # NoText
                 /\ IsImdbId(results[i].sel[1].imdb_id)
                 /\ \A j \in 1..Len(results) :
                       (/\ \/ results0[j].status \in {UNSURE, NONE, SKIP, DONE, RENAMED}
                           \/ results[j].coll
                        /\ results[j].path # results[i].path)
                           => fs'[results[j].path] = fs[results[j].path]]_vars

\* the folder of the first outcome is under its target name, and the collection
\* that came second, manual without a selection, is where and what it was
C32_Witness ==
    /\ pc = "returned"
    /\ ~dry_run
    /\ committed = {1}
    /\ IsDir(fs, <<TargetA>>)
    /\ ~Exists(fs, <<NmA>>)
    /\ results[2].coll
    /\ results0[2].status = MANUAL
    /\ fs[NmB] = Dir(ParentDev, {})

\* C33: the name under which a committed transaction has left a folder has the
\* canonical shape, so that scan_folder finds the folder done.
C33_RenamedIsCanonical ==
    \A i \in committed : CanonicalShape(results[i].new_name)

\* every temporary name a transaction can take
TmpNames == {TmpName(t, m.tmdb_id) : t \in Clock, m \in Matches}
\* the transaction of the outcome picked is over but for the clearing of the log:
\* every step has succeeded, or the rollback has restored every step it tried
TxnOver == pc = "commit" \/ (pc = "rollback" /\ rb = <<>> /\ ~rbFail)

\* C34: when the transaction of a folder is over, by commit or by a rollback
\* whose restores all succeeded, nothing is under a temporary name that was not
\* there before; after a commit the folder is under its target name, with as many
\* children as it had, and not under its old name; after a rollback the folder is
\* under its old name as it was and the target is as it was.
C34_NoTempLeft ==
    (TxnOver /\ IsDir(fs0, <<Cur.path>>)) =>
        LET p == Cur.path
            t == Cur.new_name
        IN  /\ \A n \in TmpNames : fs[n] = fs0[n]
            /\ pc = "commit" =>
                  /\ IsDir(fs, <<t>>)
                  /\ Cardinality(fs[t].kids) = Cardinality(fs0[p].kids)
                  /\ p # t => ~Exists(fs, <<p>>)
            /\ pc = "rollback" =>
                  /\ fs[p] = fs0[p]
                  /\ fs[t] = fs0[t]

\* both hops were made and then a child file could not be renamed: the rollback
\* has taken the folder back through the temporary name, which is free again
C34_Witness ==
    /\ pc = "rollback"
    /\ rb = <<>>
    /\ ~rbFail
    /\ IsDir(fs0, <<Cur.path>>)
    /\ Cur.path # Cur.new_name
    /\ Len(visited) >= 2
    /\ \E i \in 1..Len(visited) :
          visited[i].how = "restored" /\ visited[i].op.new = <<temp>>
    /\ \E i \in 1..Len(visited) :
          visited[i].how = "restored" /\ visited[i].op.old = <<temp>>
    /\ ~Exists(fs, <<temp>>)
    /\ fs = fs0

\* C35: whatever review commands are given, the results never hold two outcomes
\* made of the same item of a collection: no two outcomes that are not
\* collections have the same path.
C35_EntryExpandedOnce ==
    \A i, j \in 1..Len(results) :
        (i # j /\ ~results[i].coll /\ ~results[j].coll)
            => results[i].path # results[j].path

====
